---- MODULE Spec2Model ----
(***************************************************************************)
(* Deadlock detector: Resource Allocation Graph (resource_graph.c), the    *)
(* DFS cycle enumerator (cycle_detection.c) and the classifier / reporter  *)
(* (deadlock_detection.c).                                                  *)
(*                                                                         *)
(* C arrays are functions over 0 .. max_vertices-1, linked adjacency lists *)
(* are sequences whose first element is the list head, cycle paths are     *)
(* sequences (C index i is element i+1).  Allocation is assumed to succeed *)
(* (safe_malloc / safe_realloc never return NULL).                         *)
(***************************************************************************)
EXTENDS Integers, Sequences, FiniteSets, TLC

\* ------------------------------------------------------------------ bounds
MaxPid == 2
MaxRid == 2
MaxInstances == 2
MaxVertices == 4
MaxEdges == 5
MaxProcs == 2
MaxPerProc == 2
MaxPasses == 1
MaxRuns == 2
MaxHeldLocks == 1
MaxPipes == 2
MaxLocks == 1
MaxSharedPipes == 257
MaxSharers == 130
MaxBlockingLocks == 257
MaxCycleVertices == 3
MaxListLen == 2
MaxInterval == 2
MaxDetections == 3

\* --------------------------------------------------------- config.h values
SUCCESS == 0
ERROR_INVALID_ARGUMENT == -4
ERROR_GRAPH_CREATION_FAILED == -6
MAX_PROCESSES == 10000
MAX_RESOURCES == 5000
MAX_VERTICES == 15000
MAX_RESOURCES_PER_PROCESS == 256
MAX_WAITING_PIDS == 128
PIPE_RESOURCE_MODULUS == 1000000
DEFAULT_MONITORING_INTERVAL == 5
MIN_MONITORING_INTERVAL == 1
COLOR_WHITE == 0
COLOR_GRAY == 1
COLOR_BLACK == 2
VERTEX_TYPE_PROCESS == 0
VERTEX_TYPE_RESOURCE == 1
REQUEST_EDGE == 0
ALLOCATION_EDGE == 1

\* ------------------------------------------------------------ input domains
PidInputs == 0 .. MaxPid
RidInputs == {-1} \cup (1 .. MaxRid)
InstanceInputs == 0 .. MaxInstances

MinOf(S) == CHOOSE x \in S : \A y \in S : x <= y

\* ============================================================ resource_graph.c

create_graph(max_vertices) ==
    [ num_vertices      |-> 0,
      max_vertices      |-> max_vertices,
      num_edges         |-> 0,
      next_vertex_index |-> 0,
      adjacency_list    |-> [i \in 0 .. max_vertices - 1 |-> << >>],
      color             |-> [i \in 0 .. max_vertices - 1 |-> COLOR_WHITE],
      parent            |-> [i \in 0 .. max_vertices - 1 |-> -1],
      vertex_type       |-> [i \in 0 .. max_vertices - 1 |-> -1],
      vertex_id         |-> [i \in 0 .. max_vertices - 1 |-> -1],
      vertex_instances  |-> [i \in 0 .. max_vertices - 1 |-> 0] ]

find_vertex_by_pid_untyped(graph, pid) ==
    LET S == { i \in 0 .. graph.num_vertices - 1 : graph.vertex_id[i] = pid }
    IN  IF S = {} THEN -1 ELSE MinOf(S)

find_vertex_by_pid(graph, pid) ==
    LET S == { i \in 0 .. graph.num_vertices - 1 :
                 graph.vertex_type[i] = VERTEX_TYPE_PROCESS /\ graph.vertex_id[i] = pid }
    IN  IF S = {} THEN -1 ELSE MinOf(S)

find_vertex_by_rid_blind(graph, rid) == -1

find_vertex_by_rid(graph, rid) ==
    LET S == { i \in 0 .. graph.num_vertices - 1 :
                 graph.vertex_type[i] = VERTEX_TYPE_RESOURCE /\ graph.vertex_id[i] = rid }
    IN  IF S = {} THEN -1 ELSE MinOf(S)

\* Result: [graph, ret]; ret is the vertex index or -1.
add_process_vertex(graph, pid) ==
    IF pid <= 0 THEN [graph |-> graph, ret |-> -1]
    ELSE LET existing == find_vertex_by_pid(graph, pid) IN
         IF existing >= 0 THEN [graph |-> graph, ret |-> existing]
         ELSE IF graph.num_vertices >= graph.max_vertices THEN [graph |-> graph, ret |-> -1]
         ELSE LET vertex_index == graph.next_vertex_index IN
              [ graph |-> [graph EXCEPT
                    !.next_vertex_index = @ + 1,
                    !.vertex_type[vertex_index] = VERTEX_TYPE_PROCESS,
                    !.vertex_id[vertex_index] = pid,
                    !.vertex_instances[vertex_index] = 0,
                    !.color[vertex_index] = COLOR_WHITE,
                    !.parent[vertex_index] = -1,
                    !.adjacency_list[vertex_index] = << >>,
                    !.num_vertices = @ + 1],
                ret |-> vertex_index ]

add_resource_vertex(graph, rid, instances_in) ==
    IF rid < 0 THEN [graph |-> graph, ret |-> -1]
    ELSE LET instances == IF instances_in <= 0 THEN 1 ELSE instances_in
             existing == find_vertex_by_rid(graph, rid) IN
         IF existing >= 0
         THEN [ graph |-> IF graph.vertex_instances[existing] # instances
                          THEN [graph EXCEPT !.vertex_instances[existing] = instances]
                          ELSE graph,
                ret |-> existing ]
         ELSE IF graph.num_vertices >= graph.max_vertices THEN [graph |-> graph, ret |-> -1]
         ELSE LET vertex_index == graph.next_vertex_index IN
              [ graph |-> [graph EXCEPT
                    !.next_vertex_index = @ + 1,
                    !.vertex_type[vertex_index] = VERTEX_TYPE_RESOURCE,
                    !.vertex_id[vertex_index] = rid,
                    !.vertex_instances[vertex_index] = instances,
                    !.color[vertex_index] = COLOR_WHITE,
                    !.parent[vertex_index] = -1,
                    !.adjacency_list[vertex_index] = << >>,
                    !.num_vertices = @ + 1],
                ret |-> vertex_index ]

\* add_edge_to_list without the search for an existing node.
add_edge_to_list_always(head, vertex_id, edge_type) ==
    [list |-> << [vertex_id |-> vertex_id, edge_type |-> edge_type] >> \o head,
     ret  |-> SUCCESS]

\* Result: [list, ret].  A new node is inserted at the head.
add_edge_to_list(head, vertex_id, edge_type) ==
    IF \E k \in 1 .. Len(head) :
          head[k].vertex_id = vertex_id /\ head[k].edge_type = edge_type
    THEN [list |-> head, ret |-> SUCCESS]
    ELSE [list |-> << [vertex_id |-> vertex_id, edge_type |-> edge_type] >> \o head,
          ret  |-> SUCCESS]

\* Result: [graph, ret].
add_request_edge(graph, pid, rid) ==
    LET after_edge(p, r, e) ==
            [ graph |-> [r.graph EXCEPT
                  !.adjacency_list[p.ret] = e.list,
                  !.num_edges = IF e.ret = SUCCESS THEN @ + 1 ELSE @],
              ret |-> e.ret ]
        after_resource(p, r) ==
            IF r.ret < 0 THEN [graph |-> r.graph, ret |-> ERROR_GRAPH_CREATION_FAILED]
            ELSE after_edge(p, r, add_edge_to_list(r.graph.adjacency_list[p.ret],
                                                   r.ret, REQUEST_EDGE))
        after_process(p) ==
            IF p.ret < 0 THEN [graph |-> p.graph, ret |-> ERROR_GRAPH_CREATION_FAILED]
            ELSE after_resource(p, add_resource_vertex(p.graph, rid, 1))
    IN  after_process(add_process_vertex(graph, pid))

\* add_allocation_edge that declares the resource with two instances.
add_allocation_edge_two_instances(graph, rid, pid) ==
    LET after_edge(r, p, e) ==
            [ graph |-> [p.graph EXCEPT
                  !.adjacency_list[r.ret] = e.list,
                  !.num_edges = IF e.ret = SUCCESS THEN @ + 1 ELSE @],
              ret |-> e.ret ]
        after_process(r, p) ==
            IF p.ret < 0 THEN [graph |-> p.graph, ret |-> ERROR_GRAPH_CREATION_FAILED]
            ELSE after_edge(r, p, add_edge_to_list(p.graph.adjacency_list[r.ret],
                                                   p.ret, ALLOCATION_EDGE))
        after_resource(r) ==
            IF r.ret < 0 THEN [graph |-> r.graph, ret |-> ERROR_GRAPH_CREATION_FAILED]
            ELSE after_process(r, add_process_vertex(r.graph, pid))
    IN  after_resource(add_resource_vertex(graph, rid, 2))

add_allocation_edge(graph, rid, pid) ==
    LET after_edge(r, p, e) ==
            [ graph |-> [p.graph EXCEPT
                  !.adjacency_list[r.ret] = e.list,
                  !.num_edges = IF e.ret = SUCCESS THEN @ + 1 ELSE @],
              ret |-> e.ret ]
        after_process(r, p) ==
            IF p.ret < 0 THEN [graph |-> p.graph, ret |-> ERROR_GRAPH_CREATION_FAILED]
            ELSE after_edge(r, p, add_edge_to_list(p.graph.adjacency_list[r.ret],
                                                   p.ret, ALLOCATION_EDGE))
        after_resource(r) ==
            IF r.ret < 0 THEN [graph |-> r.graph, ret |-> ERROR_GRAPH_CREATION_FAILED]
            ELSE after_process(r, add_process_vertex(r.graph, pid))
    IN  after_resource(add_resource_vertex(graph, rid, 1))

get_vertex_id(graph, vertex_index) ==
    IF vertex_index < 0 \/ vertex_index >= graph.num_vertices THEN -1
    ELSE graph.vertex_id[vertex_index]

\* Result: [num_processes, num_resources, num_edges].
get_graph_statistics(graph) ==
    [ num_processes |-> Cardinality({ i \in 0 .. graph.num_vertices - 1 :
                                        graph.vertex_type[i] = VERTEX_TYPE_PROCESS }),
      num_resources |-> Cardinality({ i \in 0 .. graph.num_vertices - 1 :
                                        graph.vertex_type[i] = VERTEX_TYPE_RESOURCE }),
      num_edges     |-> graph.num_edges ]

\* reset_graph_colors that leaves both arrays as they are.
reset_graph_colors_keep(graph) == graph

reset_graph_colors(graph) ==
    [graph EXCEPT
        !.color  = [i \in DOMAIN graph.color |->
                       IF i < graph.num_vertices THEN COLOR_WHITE ELSE graph.color[i]],
        !.parent = [i \in DOMAIN graph.parent |->
                       IF i < graph.num_vertices THEN -1 ELSE graph.parent[i]]]

\* The first loop of convert_to_wfg: every process vertex of rag, from index i
\* on, is added to wfg.
RECURSIVE wfg_add_processes(_, _, _)
wfg_add_processes(rag_in, wfg_in, i) ==
    IF i >= rag_in.num_vertices THEN wfg_in
    ELSE IF rag_in.vertex_type[i] = VERTEX_TYPE_PROCESS
    THEN wfg_add_processes(rag_in, add_process_vertex(wfg_in, rag_in.vertex_id[i]).graph, i + 1)
    ELSE wfg_add_processes(rag_in, wfg_in, i + 1)

\* The walk along the adjacency list of resource_vertex, from node l on, for
\* process vertex i: every allocation edge R -> P2 adds i -> P2 to wfg.
RECURSIVE wfg_resource_edges(_, _, _, _, _)
wfg_resource_edges(rag_in, wfg_in, i, resource_vertex, l) ==
    LET list == rag_in.adjacency_list[resource_vertex]
        added(e, p1_idx) ==
            [wfg_in EXCEPT !.adjacency_list[p1_idx] = e.list, !.num_edges = @ + 1]
        with_edge(p1_idx, p2_idx) ==
            IF p1_idx >= 0 /\ p2_idx >= 0
            THEN added(add_edge_to_list(wfg_in.adjacency_list[p1_idx], p2_idx, 0), p1_idx)
            ELSE wfg_in
    IN  IF l > Len(list) THEN wfg_in
        ELSE IF list[l].edge_type = 1
        THEN wfg_resource_edges(rag_in,
                 with_edge(find_vertex_by_pid(wfg_in, rag_in.vertex_id[i]),
                           find_vertex_by_pid(wfg_in, rag_in.vertex_id[list[l].vertex_id])),
                 i, resource_vertex, l + 1)
        ELSE wfg_resource_edges(rag_in, wfg_in, i, resource_vertex, l + 1)

\* The walk along the adjacency list of process vertex i that adds no edge
\* for a request that comes after another request in the list.
wfg_process_edges_first_only(rag_in, wfg_in, i, k) ==
    LET list == rag_in.adjacency_list[i] IN
    IF k > Len(list) THEN wfg_in
    ELSE wfg_resource_edges(rag_in, wfg_in, i, list[k].vertex_id, 1)

\* The walk along the adjacency list of process vertex i, from node k on.
RECURSIVE wfg_process_edges(_, _, _, _)
wfg_process_edges(rag_in, wfg_in, i, k) ==
    LET list == rag_in.adjacency_list[i] IN
    IF k > Len(list) THEN wfg_in
    ELSE IF rag_in.vertex_type[list[k].vertex_id] = VERTEX_TYPE_RESOURCE
    THEN wfg_process_edges(rag_in,
             wfg_resource_edges(rag_in, wfg_in, i, list[k].vertex_id, 1), i, k + 1)
    ELSE wfg_process_edges(rag_in, wfg_in, i, k + 1)

\* The edge loop of convert_to_wfg, from vertex i on.
RECURSIVE wfg_convert_edges(_, _, _)
wfg_convert_edges(rag_in, wfg_in, i) ==
    IF i >= rag_in.num_vertices THEN wfg_in
    ELSE IF rag_in.vertex_type[i] = VERTEX_TYPE_PROCESS
    THEN wfg_convert_edges(rag_in, wfg_process_edges(rag_in, wfg_in, i, 1), i + 1)
    ELSE wfg_convert_edges(rag_in, wfg_in, i + 1)

\* Result: [wfg, ret]; a NULL *wfg_out is the graph of no vertex.
convert_to_wfg(rag_in) ==
    LET process_count ==
            Cardinality({ i \in 0 .. rag_in.num_vertices - 1 :
                            rag_in.vertex_type[i] = VERTEX_TYPE_PROCESS })
    IN  IF process_count = 0 THEN [wfg |-> create_graph(0), ret |-> SUCCESS]
        ELSE [ wfg |-> wfg_convert_edges(rag_in,
                           wfg_add_processes(rag_in, create_graph(process_count), 0), 0),
               ret |-> SUCCESS ]

\* ============================================================ cycle_detection.c

\* Result: 1 if cycle equals a stored cycle under some index shift, 0 otherwise.
\* The shift runs over all cycle_length entries, the closing vertex included.
\* The duplicate test with the length comparison only.
is_duplicate_cycle_by_length(cycle, cycle_list, num_cycles) ==
    IF num_cycles <= 0 THEN 0
    ELSE IF \E i \in 1 .. num_cycles : cycle_list[i].cycle_length = cycle.cycle_length
         THEN 1 ELSE 0

is_duplicate_cycle(cycle, cycle_list, num_cycles) ==
    IF num_cycles <= 0 THEN 0
    ELSE IF \E i \in 1 .. num_cycles :
               /\ cycle_list[i].cycle_length = cycle.cycle_length
               /\ \E offset \in 0 .. cycle.cycle_length - 1 :
                     \A j \in 0 .. cycle.cycle_length - 1 :
                        cycle_list[i].cycle_path[((j + offset) % cycle.cycle_length) + 1]
                           = cycle.cycle_path[j + 1]
         THEN 1 ELSE 0

\* add_cycle_to_list with the duplicate test inverted.
add_cycle_to_list_inverted(cycle_list, cycle) ==
    IF is_duplicate_cycle(cycle, cycle_list, Len(cycle_list)) = 0 THEN cycle_list
    ELSE Append(cycle_list, cycle)

\* Result: the list, with a copy of cycle appended unless it is a duplicate.
add_cycle_to_list(cycle_list, cycle) ==
    IF is_duplicate_cycle(cycle, cycle_list, Len(cycle_list)) = 1 THEN cycle_list
    ELSE Append(cycle_list, cycle)

detect_back_edge(graph, from_vertex, to_vertex, color) ==
    IF from_vertex < 0 \/ from_vertex >= graph.num_vertices
       \/ to_vertex < 0 \/ to_vertex >= graph.num_vertices THEN 0
    ELSE IF color[to_vertex] = COLOR_GRAY THEN 1 ELSE 0

Reverse(s) == [i \in 1 .. Len(s) |-> s[Len(s) + 1 - i]]

\* The ids of the vertices of kind type among the first n entries of path.
ids_of_kind(graph, path, n, type) ==
    LET idx == { i \in 1 .. n : path[i] >= 0 /\ path[i] < graph.num_vertices
                                /\ graph.vertex_type[path[i]] = type }
        RECURSIVE collect(_)
        collect(i) == IF i > n THEN << >>
                      ELSE IF i \in idx THEN << graph.vertex_id[path[i]] >> \o collect(i + 1)
                      ELSE collect(i + 1)
    IN  collect(1)

\* The while loop of extract_cycle_path with room for num_vertices - 2 steps.
RECURSIVE follow_parent_chain_short(_, _, _, _, _)
follow_parent_chain_short(parent, ancestor, v, temp_path, num_vertices) ==
    IF v # ancestor /\ v >= 0 /\ Len(temp_path) < num_vertices - 2
    THEN IF parent[v] < 0
         THEN [ret |-> ERROR_INVALID_ARGUMENT, v |-> parent[v], temp_path |-> Append(temp_path, v)]
         ELSE follow_parent_chain_short(parent, ancestor, parent[v], Append(temp_path, v),
                                        num_vertices)
    ELSE [ret |-> SUCCESS, v |-> v, temp_path |-> temp_path]

\* The while loop of extract_cycle_path: follows parent[] from v towards ancestor.
\* Result: [ret, v, temp_path].
RECURSIVE follow_parent_chain(_, _, _, _, _)
follow_parent_chain(parent, ancestor, v, temp_path, num_vertices) ==
    IF v # ancestor /\ v >= 0 /\ Len(temp_path) < num_vertices
    THEN IF parent[v] < 0
         THEN [ret |-> ERROR_INVALID_ARGUMENT, v |-> parent[v], temp_path |-> Append(temp_path, v)]
         ELSE follow_parent_chain(parent, ancestor, parent[v], Append(temp_path, v), num_vertices)
    ELSE [ret |-> SUCCESS, v |-> v, temp_path |-> temp_path]

NoCycle ==
    [ cycle_path |-> << >>, cycle_length |-> 0, cycle_start_vertex |-> 0,
      cycle_end_vertex |-> 0, process_ids |-> << >>, resource_ids |-> << >>,
      num_processes |-> 0, num_resources |-> 0 ]

MakeCycle(graph, path, ancestor) ==
    LET info(procs, ress) ==
            [ cycle_path |-> path, cycle_length |-> Len(path),
              cycle_start_vertex |-> ancestor, cycle_end_vertex |-> ancestor,
              process_ids |-> procs, resource_ids |-> ress,
              num_processes |-> Len(procs), num_resources |-> Len(ress) ]
    IN  info(ids_of_kind(graph, path, Len(path) - 1, VERTEX_TYPE_PROCESS),
             ids_of_kind(graph, path, Len(path) - 1, VERTEX_TYPE_RESOURCE))

\* build_cycle_path without the reversal of temp_path.
build_cycle_path_unreversed(ancestor, temp_path) ==
    << ancestor >> \o temp_path \o << ancestor >>

\* The cycle_path extract_cycle_path assembles: ancestor, then temp_path (the
\* vertices from current up to, not including, ancestor) reversed, then ancestor.
build_cycle_path(ancestor, temp_path) ==
    << ancestor >> \o Reverse(temp_path) \o << ancestor >>

\* Result: [ret, cycle].
extract_cycle_path(parent, ancestor, current, graph) ==
    LET assemble(w) ==
            IF w.ret # SUCCESS \/ w.v # ancestor
            THEN [ret |-> ERROR_INVALID_ARGUMENT, cycle |-> NoCycle]
            ELSE [ret |-> SUCCESS,
                  cycle |-> MakeCycle(graph, build_cycle_path(ancestor, w.temp_path), ancestor)]
    IN  IF ancestor < 0 \/ ancestor >= graph.num_vertices
           \/ current < 0 \/ current >= graph.num_vertices
        THEN [ret |-> ERROR_INVALID_ARGUMENT, cycle |-> NoCycle]
        ELSE IF current = ancestor
        THEN [ret |-> SUCCESS, cycle |-> MakeCycle(graph, << ancestor, ancestor >>, ancestor)]
        ELSE assemble(follow_parent_chain(parent, ancestor, current, << >>,
                                          graph.num_vertices))

\* DFS state st: [color, parent, cycles, ret].
RECURSIVE dfs_visit_recursive(_, _, _)
RECURSIVE dfs_visit_neighbors(_, _, _, _)

\* The neighbour loop of dfs_visit_recursive, from the k-th adjacency entry on.
dfs_visit_neighbors(graph, vertex, k, st) ==
    LET neighbor == graph.adjacency_list[vertex][k].vertex_id
        after_visit(s1) ==
            IF s1.ret # SUCCESS THEN s1
            ELSE dfs_visit_neighbors(graph, vertex, k + 1, s1)
        after_extract(e) ==
            dfs_visit_neighbors(graph, vertex, k + 1,
                IF e.ret = SUCCESS
                THEN [st EXCEPT !.cycles = add_cycle_to_list(@, e.cycle)]
                ELSE st)
    IN  IF k > Len(graph.adjacency_list[vertex]) THEN st
        ELSE IF neighbor < 0 \/ neighbor >= graph.num_vertices
        THEN dfs_visit_neighbors(graph, vertex, k + 1, st)
        ELSE IF st.color[neighbor] = COLOR_WHITE
        THEN after_visit(dfs_visit_recursive(graph, neighbor,
                                             [st EXCEPT !.parent[neighbor] = vertex]))
        ELSE IF st.color[neighbor] = COLOR_GRAY
        THEN after_extract(extract_cycle_path(st.parent, neighbor, vertex, graph))
        ELSE dfs_visit_neighbors(graph, vertex, k + 1, st)

dfs_visit_recursive(graph, vertex, st) ==
    LET finish(s1) ==
            IF s1.ret # SUCCESS THEN s1
            ELSE [s1 EXCEPT !.color[vertex] = COLOR_BLACK]
    IN  IF vertex < 0 \/ vertex >= graph.num_vertices
        THEN [st EXCEPT !.ret = ERROR_INVALID_ARGUMENT]
        ELSE finish(dfs_visit_neighbors(graph, vertex, 1,
                                        [st EXCEPT !.color[vertex] = COLOR_GRAY]))

\* prepare_root that also whitens every vertex before each DFS tree.
prepare_root_recolor(graph, st) ==
    [st EXCEPT !.parent = [j \in DOMAIN st.parent |->
                              IF j < graph.num_vertices THEN -1 ELSE st.parent[j]],
               !.color  = [j \in DOMAIN st.color |->
                              IF j < graph.num_vertices THEN COLOR_WHITE ELSE st.color[j]]]

\* What find_all_cycles does before starting a DFS tree at root i: it clears
\* parent[] and leaves the colours alone.
prepare_root(graph, st) ==
    [st EXCEPT !.parent = [j \in DOMAIN st.parent |->
                              IF j < graph.num_vertices THEN -1 ELSE st.parent[j]]]

\* The root loop of find_all_cycles, from vertex i on.
RECURSIVE find_all_cycles_from(_, _, _)
find_all_cycles_from(graph, i, st) ==
    LET after_tree(s1) ==
            IF s1.ret # SUCCESS THEN [s1 EXCEPT !.cycles = << >>]
            ELSE find_all_cycles_from(graph, i + 1, s1)
    IN  IF i >= graph.num_vertices THEN st
        ELSE IF st.color[i] = COLOR_WHITE
        THEN after_tree(dfs_visit_recursive(graph, i, prepare_root(graph, st)))
        ELSE find_all_cycles_from(graph, i + 1, st)

\* Result: [graph, cycles, ret]; graph carries the colours and parents left behind.
find_all_cycles(graph) ==
    LET result(g0, st) ==
            [ graph  |-> [g0 EXCEPT !.color = st.color, !.parent = st.parent],
              cycles |-> st.cycles,
              ret    |-> st.ret ]
        run(g0) ==
            result(g0, find_all_cycles_from(g0, 0,
                          [color |-> g0.color, parent |-> g0.parent,
                           cycles |-> << >>, ret |-> SUCCESS]))
    IN  run(reset_graph_colors(graph))

\* Result: [graph, cycles, ret]; ret is 1, 0 or a negative error.
has_cycle(graph) ==
    LET verdict(f) ==
            IF f.ret # SUCCESS THEN [graph |-> f.graph, cycles |-> << >>, ret |-> f.ret]
            ELSE [graph |-> f.graph, cycles |-> f.cycles,
                  ret |-> IF Len(f.cycles) > 0 THEN 1 ELSE 0]
    IN  verdict(find_all_cycles(graph))

validate_cycle(cycle, graph) ==
    IF cycle.cycle_length < 2 THEN 0
    ELSE IF cycle.cycle_path[1] # cycle.cycle_path[cycle.cycle_length] THEN 0
    ELSE IF \E i \in 1 .. cycle.cycle_length :
               cycle.cycle_path[i] < 0 \/ cycle.cycle_path[i] >= graph.num_vertices THEN 0
    ELSE IF \A i \in 1 .. cycle.cycle_length - 1 :
               \E k \in 1 .. Len(graph.adjacency_list[cycle.cycle_path[i]]) :
                  graph.adjacency_list[cycle.cycle_path[i]][k].vertex_id
                     = cycle.cycle_path[i + 1]
    THEN 1 ELSE 0

\* ========================================================= deadlock_detection.c

\* A NULL ResourceGraph* is represented by the graph of capacity 0.
NULL_GRAPH == create_graph(0)

is_pid_in_array(pids, count, pid) ==
    IF \E i \in 1 .. count : pids[i] = pid THEN 1 ELSE 0

\* add_pid_to_array without the membership test.
add_pid_to_array_nodedup(pids, pid) == Append(pids, pid)

add_pid_to_array(pids, pid) ==
    IF is_pid_in_array(pids, Len(pids), pid) = 1 THEN pids ELSE Append(pids, pid)

create_deadlock_report ==
    [ deadlock_detected |-> 0, deadlocked_pids |-> << >>, num_deadlocked |-> 0,
      cycles |-> << >>, num_cycles |-> 0,
      explanations |-> << >>, num_explanations |-> 0, num_recommendations |-> 0,
      total_processes_scanned |-> 0, total_resources_found |-> 0 ]

\* The allocation-edge loop of build_rag_from_processes for one process,
\* from the j-th held resource on.  Result: [graph, ret].
RECURSIVE build_held_edges(_, _, _, _)
build_held_edges(graph, pid, held, j) ==
    LET after_edge(e) ==
            IF e.ret # SUCCESS THEN [graph |-> NULL_GRAPH, ret |-> e.ret]
            ELSE build_held_edges(e.graph, pid, held, j + 1)
        after_vertex(r) ==
            IF r.ret < 0 THEN [graph |-> NULL_GRAPH, ret |-> ERROR_GRAPH_CREATION_FAILED]
            ELSE after_edge(add_allocation_edge(r.graph, held[j], pid))
    IN  IF j > Len(held) THEN [graph |-> graph, ret |-> SUCCESS]
        ELSE after_vertex(add_resource_vertex(graph, held[j], 1))

\* The request-edge loop of build_rag_from_processes for one process.
RECURSIVE build_waiting_edges(_, _, _, _)
build_waiting_edges(graph, pid, waiting, j) ==
    LET after_edge(e) ==
            IF e.ret # SUCCESS THEN [graph |-> NULL_GRAPH, ret |-> e.ret]
            ELSE build_waiting_edges(e.graph, pid, waiting, j + 1)
        after_vertex(r) ==
            IF r.ret < 0 THEN [graph |-> NULL_GRAPH, ret |-> ERROR_GRAPH_CREATION_FAILED]
            ELSE after_edge(add_request_edge(r.graph, pid, waiting[j]))
    IN  IF j > Len(waiting) THEN [graph |-> graph, ret |-> SUCCESS]
        ELSE after_vertex(add_resource_vertex(graph, waiting[j], 1))

\* The process loop of build_rag_from_processes, from process i on.
RECURSIVE build_processes(_, _, _)
build_processes(graph, procs_in, i) ==
    LET after_waiting(w) ==
            IF w.ret # SUCCESS THEN w
            ELSE build_processes(w.graph, procs_in, i + 1)
        after_held(h) ==
            IF h.ret # SUCCESS THEN h
            ELSE after_waiting(build_waiting_edges(h.graph, procs_in[i].pid,
                                                   procs_in[i].waiting_resources, 1))
        after_vertex(p) ==
            IF p.ret < 0 THEN [graph |-> NULL_GRAPH, ret |-> ERROR_GRAPH_CREATION_FAILED]
            ELSE after_held(build_held_edges(p.graph, procs_in[i].pid,
                                             procs_in[i].held_resources, 1))
    IN  IF i > Len(procs_in) THEN [graph |-> graph, ret |-> SUCCESS]
        ELSE after_vertex(add_process_vertex(graph, procs_in[i].pid))

graph_capacity_for(num_procs) ==
    IF num_procs * 2 > MAX_VERTICES THEN MAX_VERTICES ELSE num_procs * 2

\* Result: [graph, ret].
build_rag_from_processes(procs_in) ==
    IF Len(procs_in) <= 0 THEN [graph |-> NULL_GRAPH, ret |-> ERROR_INVALID_ARGUMENT]
    ELSE build_processes(create_graph(graph_capacity_for(Len(procs_in))), procs_in, 1)

\* is_deadlock_definite with the loop stopping one entry early.
is_deadlock_definite_short(cycle, graph) ==
    IF cycle.cycle_length = 0 THEN 0
    ELSE IF \E i \in 1 .. cycle.cycle_length - 2 :
               /\ cycle.cycle_path[i] >= 0
               /\ cycle.cycle_path[i] < graph.num_vertices
               /\ graph.vertex_type[cycle.cycle_path[i]] = VERTEX_TYPE_RESOURCE
               /\ graph.vertex_instances[cycle.cycle_path[i]] > 1
         THEN 0 ELSE 1

is_deadlock_definite(cycle, graph) ==
    IF cycle.cycle_length = 0 THEN 0
    ELSE IF \E i \in 1 .. cycle.cycle_length - 1 :
               /\ cycle.cycle_path[i] >= 0
               /\ cycle.cycle_path[i] < graph.num_vertices
               /\ graph.vertex_type[cycle.cycle_path[i]] = VERTEX_TYPE_RESOURCE
               /\ graph.vertex_instances[cycle.cycle_path[i]] > 1
         THEN 0 ELSE 1

\* The pids one cycle contributes: the process vertices of its path (closing
\* vertex excluded), then its process_ids array.
RECURSIVE add_cycle_pids(_, _, _, _)
add_cycle_pids(pids, cycle, graph, j) ==
    IF j > cycle.cycle_length - 1
    THEN LET RECURSIVE from_ids(_, _)
             from_ids(acc, k) == IF k > cycle.num_processes THEN acc
                                 ELSE from_ids(add_pid_to_array(acc, cycle.process_ids[k]), k + 1)
         IN  from_ids(pids, 1)
    ELSE LET vertex == cycle.cycle_path[j] IN
         IF vertex >= 0 /\ vertex < graph.num_vertices
            /\ graph.vertex_type[vertex] = VERTEX_TYPE_PROCESS
         THEN add_cycle_pids(add_pid_to_array(pids, graph.vertex_id[vertex]), cycle, graph, j + 1)
         ELSE add_cycle_pids(pids, cycle, graph, j + 1)

\* Result: the pid array (count is its length).
RECURSIVE identify_from(_, _, _, _)
identify_from(pids, cycles, graph, i) ==
    IF i > Len(cycles) THEN pids
    ELSE identify_from(add_cycle_pids(pids, cycles[i], graph, 1), cycles, graph, i + 1)

identify_deadlocked_processes(cycles, graph) == identify_from(<< >>, cycles, graph, 1)

\* Result: [definite, potential].
RECURSIVE filter_from(_, _, _, _)
filter_from(cycles, graph, i, acc) ==
    IF i > Len(cycles) THEN acc
    ELSE IF is_deadlock_definite(cycles[i], graph) = 1
    THEN filter_from(cycles, graph, i + 1, [acc EXCEPT !.definite = Append(@, cycles[i])])
    ELSE filter_from(cycles, graph, i + 1, [acc EXCEPT !.potential = Append(@, cycles[i])])

NoBuckets == [definite |-> << >>, potential |-> << >>]

filter_actual_deadlocks(cycles, graph) == filter_from(cycles, graph, 1, NoBuckets)

\* select_deadlock_cycles that takes the potential bucket whenever it is non-empty.
select_deadlock_cycles_potential_first(b) ==
    IF Len(b.potential) > 0 THEN b.potential ELSE b.definite

\* The cycles analyze_cycles_for_deadlock puts in the report: the definite
\* bucket, or the potential one when no cycle is definite.
select_deadlock_cycles(b) ==
    IF Len(b.definite) = 0 /\ Len(b.potential) > 0 THEN b.potential ELSE b.definite

\* store_deadlock_cycles that leaves num_cycles alone.
store_deadlock_cycles_no_count(rep, deadlock_cycles, graph) ==
    IF Len(deadlock_cycles) > 0
    THEN LET pids == identify_deadlocked_processes(deadlock_cycles, graph) IN
         [rep EXCEPT !.cycles = deadlock_cycles,
                     !.deadlock_detected = 1,
                     !.deadlocked_pids = pids,
                     !.num_deadlocked = Len(pids)]
    ELSE [rep EXCEPT !.cycles = deadlock_cycles, !.deadlock_detected = 0]

\* The report fields analyze_cycles_for_deadlock writes once the cycles are chosen.
store_deadlock_cycles(rep, deadlock_cycles, graph) ==
    LET with_pids(pids) ==
            [rep EXCEPT !.cycles = deadlock_cycles,
                        !.num_cycles = Len(deadlock_cycles),
                        !.deadlock_detected = 1,
                        !.deadlocked_pids = pids,
                        !.num_deadlocked = Len(pids)]
    IN  IF Len(deadlock_cycles) > 0
        THEN with_pids(identify_deadlocked_processes(deadlock_cycles, graph))
        ELSE [rep EXCEPT !.cycles = deadlock_cycles,
                         !.num_cycles = 0,
                         !.deadlock_detected = 0]

\* Result: [ret, report, buckets].  cycles = << >> is the NULL list that
\* find_all_cycles returns when it found nothing.
analyze_cycles_for_deadlock(cycles, graph, rep) ==
    LET store(b) ==
            [ ret |-> SUCCESS,
              buckets |-> b,
              report |-> store_deadlock_cycles(rep, select_deadlock_cycles(b), graph) ]
    IN  IF cycles = << >>
        THEN [ret |-> ERROR_INVALID_ARGUMENT, report |-> rep, buckets |-> NoBuckets]
        ELSE store(filter_actual_deadlocks(cycles, graph))

\* One explanation per cycle: the chain of vertex labels and the verdict.
generate_explanations(rep, graph) ==
    IF rep.num_cycles = 0 THEN rep
    ELSE [rep EXCEPT
            !.explanations = [i \in 1 .. rep.num_cycles |->
                [ chain |-> [j \in 1 .. rep.cycles[i].cycle_length - 1 |->
                               << IF graph.vertex_type[rep.cycles[i].cycle_path[j]]
                                       = VERTEX_TYPE_PROCESS THEN "P" ELSE "R",
                                  graph.vertex_id[rep.cycles[i].cycle_path[j]] >>],
                  verdict |-> IF is_deadlock_definite(rep.cycles[i], graph) = 1
                              THEN "DEFINITE" ELSE "POTENTIAL" ]],
            !.num_explanations = rep.num_cycles]

generate_recommendations(rep, graph) ==
    IF rep.num_deadlocked = 0 THEN rep ELSE [rep EXCEPT !.num_recommendations = 3]

\* Result: [ret, report, rag]; rag is the graph the pass built (freed on return).
detect_deadlock_in_system(procs_in, rep) ==
    LET r0 == [rep EXCEPT !.deadlock_detected = 0,
                          !.total_processes_scanned = Len(procs_in)]
        verdict(f, r2) ==
            [ret |-> IF r2.deadlock_detected # 0 THEN 1 ELSE 0,
             rag |-> f.graph, report |-> r2]
        after_analyze(f, a) ==
            IF a.ret # SUCCESS
            THEN [ret |-> a.ret, rag |-> f.graph, report |-> a.report]
            ELSE verdict(f, IF a.report.deadlock_detected # 0
                            THEN generate_recommendations(
                                    generate_explanations(a.report, f.graph), f.graph)
                            ELSE a.report)
        after_find(r1, f) ==
            IF f.ret # SUCCESS THEN [ret |-> f.ret, rag |-> f.graph, report |-> r1]
            ELSE IF Len(f.cycles) > 0
            THEN after_analyze(f, analyze_cycles_for_deadlock(f.cycles, f.graph, r1))
            ELSE [ret |-> 0, rag |-> f.graph,
                  report |-> [r1 EXCEPT !.deadlock_detected = 0]]
        after_build(b) ==
            IF b.ret # SUCCESS THEN [ret |-> b.ret, rag |-> NULL_GRAPH, report |-> r0]
            ELSE after_find([r0 EXCEPT !.total_resources_found =
                                          get_graph_statistics(b.graph).num_resources],
                            find_all_cycles(reset_graph_colors(b.graph)))
    IN  IF Len(procs_in) <= 0
        THEN [ret |-> 0, rag |-> NULL_GRAPH,
              report |-> [rep EXCEPT !.deadlock_detected = 0, !.total_processes_scanned = 0]]
        ELSE after_build(build_rag_from_processes(procs_in))

\* ------------------------------------------- analyze_pipe_and_lock_dependencies
\* A ProcessResourceInfo carries here, besides the fields build_rag_from_processes
\* reads: waiting_on_pids, pipe_inodes, is_blocked_on_pipe, is_blocked_on_lock,
\* held_capacity (the number of slots allocated for held_resources, 0 for a NULL
\* pointer) and held_overrun (some element was written past those slots).
\* FileLockInfo is [lock_id, pid, is_blocking].

\* The pipe inode taken as a resource id without reduction.
pipe_resource_id_identity(pipe_inode) == pipe_inode

\* (int)(pipe_inode % 1000000)
pipe_resource_id(pipe_inode) == pipe_inode % PIPE_RESOURCE_MODULUS

\* The waiting_on_pids block without its capacity test.
add_to_waiting_on_pids_uncapped(proc, pid) ==
    IF \E m \in 1 .. Len(proc.waiting_on_pids) : proc.waiting_on_pids[m] = pid THEN proc
    ELSE [proc EXCEPT !.waiting_on_pids = Append(@, pid)]

\* The block that adds a pid to proc->waiting_on_pids: allocated on first use
\* with MAX_WAITING_PIDS slots, appended if there is room and it is not there.
add_to_waiting_on_pids(proc, pid) ==
    IF Len(proc.waiting_on_pids) < MAX_WAITING_PIDS
       /\ ~ \E m \in 1 .. Len(proc.waiting_on_pids) : proc.waiting_on_pids[m] = pid
    THEN [proc EXCEPT !.waiting_on_pids = Append(@, pid)]
    ELSE proc

\* The waiting_resources block without its search for an existing entry.
add_to_waiting_resources_nodedup(proc, rid) ==
    IF Len(proc.waiting_resources) < MAX_RESOURCES_PER_PROCESS
    THEN [proc EXCEPT !.waiting_resources = Append(@, rid)]
    ELSE proc

\* The block that adds a resource id to proc->waiting_resources: allocated on
\* first use with MAX_RESOURCES_PER_PROCESS slots.
add_to_waiting_resources(proc, rid) ==
    IF Len(proc.waiting_resources) < MAX_RESOURCES_PER_PROCESS
       /\ ~ \E m \in 1 .. Len(proc.waiting_resources) : proc.waiting_resources[m] = rid
    THEN [proc EXCEPT !.waiting_resources = Append(@, rid)]
    ELSE proc

\* The block that adds a resource id to proc->held_resources.  Only a NULL
\* array is allocated (with MAX_RESOURCES_PER_PROCESS slots); an array that came
\* with fewer slots is written at index num_held all the same.
add_to_held_resources(proc, rid) ==
    LET store(p) ==
            IF Len(p.held_resources) < MAX_RESOURCES_PER_PROCESS
               /\ ~ \E m \in 1 .. Len(p.held_resources) : p.held_resources[m] = rid
            THEN [p EXCEPT !.held_resources = Append(@, rid),
                           !.held_overrun = @ \/ Len(p.held_resources) >= p.held_capacity]
            ELSE p
    IN  store(IF proc.held_capacity = 0
              THEN [proc EXCEPT !.held_capacity = MAX_RESOURCES_PER_PROCESS,
                                !.held_resources = << >>]
              ELSE proc)

\* What is done for one pair of equal inodes of procs[i] and procs[j].
pipe_relationship(ps, i, j, pipe_rid) ==
    LET waits(p, other_pid) ==
            add_to_waiting_resources(add_to_waiting_on_pids(p, other_pid), pipe_rid)
        holds_if(p, other_blocked) ==
            IF other_blocked # 0 THEN add_to_held_resources(p, pipe_rid) ELSE p
        waits_if(p, other_pid) ==
            IF p.is_blocked_on_pipe # 0 THEN waits(p, other_pid) ELSE p
        proc_after(proc, other_proc) ==
            holds_if(waits_if(proc, other_proc.pid), other_proc.is_blocked_on_pipe)
        other_after(proc, other_proc) ==
            waits_if(add_to_held_resources(other_proc, pipe_rid), proc.pid)
    IN  [ps EXCEPT ![i] = proc_after(ps[i], ps[j]),
                   ![j] = other_after(ps[i], ps[j])]

\* The loops below run an index from lo to hi in increasing order; a range of
\* more than one index is run as its lower half followed by its upper half.
\* No loop has anything to do on an empty array.

\* for (l ...) over the pipe inodes of procs[j], for inode k of procs[i].
RECURSIVE pipe_scan_other(_, _, _, _, _, _)
pipe_scan_other(ps, i, j, k, lo, hi) ==
    IF lo > hi \/ Len(ps) = 0 THEN ps
    ELSE IF lo = hi
    THEN IF ps[j].pipe_inodes[lo] = ps[i].pipe_inodes[k]
         THEN pipe_relationship(ps, i, j, pipe_resource_id(ps[i].pipe_inodes[k]))
         ELSE ps
    ELSE pipe_scan_other(pipe_scan_other(ps, i, j, k, lo, (lo + hi) \div 2),
                         i, j, k, (lo + hi) \div 2 + 1, hi)

\* for (k ...) over the pipe inodes of procs[i].
RECURSIVE pipe_scan_own(_, _, _, _, _)
pipe_scan_own(ps, i, j, lo, hi) ==
    IF lo > hi \/ Len(ps) = 0 THEN ps
    ELSE IF lo = hi THEN pipe_scan_other(ps, i, j, lo, 1, Len(ps[j].pipe_inodes))
    ELSE pipe_scan_own(pipe_scan_own(ps, i, j, lo, (lo + hi) \div 2),
                       i, j, (lo + hi) \div 2 + 1, hi)

\* for (j ...) over the other processes.
RECURSIVE pipe_scan_procs(_, _, _, _)
pipe_scan_procs(ps, i, lo, hi) ==
    IF lo > hi \/ Len(ps) = 0 THEN ps
    ELSE IF lo = hi
    THEN IF i = lo THEN ps ELSE pipe_scan_own(ps, i, lo, 1, Len(ps[i].pipe_inodes))
    ELSE pipe_scan_procs(pipe_scan_procs(ps, i, lo, (lo + hi) \div 2),
                         i, (lo + hi) \div 2 + 1, hi)

\* What is done for procs[i] and one blocking lock of another pid.
lock_dependency(ps, i, lock) ==
    LET holder_known == \E k \in 1 .. Len(ps) : ps[k].pid = lock.pid
        with_pid(p) == IF holder_known THEN add_to_waiting_on_pids(p, lock.pid) ELSE p
    IN  IF Len(ps[i].waiting_resources) < MAX_RESOURCES_PER_PROCESS
           /\ ~ \E k \in 1 .. Len(ps[i].waiting_resources) :
                   ps[i].waiting_resources[k] = lock.lock_id
        THEN [ps EXCEPT ![i] = with_pid([@ EXCEPT !.waiting_resources =
                                                      Append(@, lock.lock_id)])]
        ELSE ps

\* for (j ...) over the system locks, for a process blocked on a lock.
RECURSIVE lock_scan(_, _, _, _, _)
lock_scan(ps, locks, i, lo, hi) ==
    IF lo > hi \/ Len(ps) = 0 THEN ps
    ELSE IF lo = hi
    THEN IF locks[lo].is_blocking # 0 /\ locks[lo].pid # ps[i].pid
         THEN lock_dependency(ps, i, locks[lo])
         ELSE ps
    ELSE lock_scan(lock_scan(ps, locks, i, lo, (lo + hi) \div 2),
                   locks, i, (lo + hi) \div 2 + 1, hi)

\* The body of the process loop of analyze_pipe_and_lock_dependencies.
analyze_process(ps, locks, i) ==
    LET locks_of(p) ==
            IF p[i].is_blocked_on_lock # 0 /\ Len(locks) > 0
            THEN lock_scan(p, locks, i, 1, Len(locks)) ELSE p
    IN  locks_of(IF Len(ps[i].pipe_inodes) > 0
                 THEN pipe_scan_procs(ps, i, 1, Len(ps)) ELSE ps)

\* for (i ...) over the processes.
RECURSIVE analyze_from(_, _, _, _)
analyze_from(ps, locks, lo, hi) ==
    IF lo > hi \/ Len(ps) = 0 THEN ps
    ELSE IF lo = hi THEN analyze_process(ps, locks, lo)
    ELSE analyze_from(analyze_from(ps, locks, lo, (lo + hi) \div 2),
                      locks, (lo + hi) \div 2 + 1, hi)

\* Result: [procs, ret].  locks is what parse_system_locks returns.
analyze_pipe_and_lock_dependencies(ps, locks) ==
    IF Len(ps) <= 0 THEN [procs |-> ps, ret |-> ERROR_INVALID_ARGUMENT]
    ELSE [procs |-> analyze_from(ps, locks, 1, Len(ps)), ret |-> SUCCESS]

\* ================================================================ state machine

VARIABLES
    graph,       \* the ResourceGraph the caller builds through the public operations
    phase,       \* what the caller holds: "build", "found", "analyzed", "detected",
                 \* "converted"; "scan", "collected", "extracted", "reported", "aborted"
    cycle_list,  \* the list the last has_cycle / find_all_cycles call returned
    buckets,     \* the two lists the last filter_actual_deadlocks call returned
    report,      \* the DeadlockReport
    ret,         \* the value the last has_cycle / analyze / detect call returned
    passes,      \* how many enumeration passes the caller has run on graph
    procs,       \* the ProcessResourceInfo array of the last detection pass
    rag,         \* the graph the last detection pass built from procs
    wfg,         \* the wait-for graph the last convert_to_wfg call returned
    system_locks,\* the FileLockInfo array parse_system_locks returns in this pass
    runs,        \* how many times the dependency analysis has run on procs
    stack,       \* the active dfs_visit_recursive calls, innermost last: [vertex, k],
                 \* k the position of `current` in the adjacency list of vertex
    root,        \* the loop variable i of find_all_cycles
    entered,     \* per vertex, how often dfs_visit_recursive was entered in this pass
    examined,    \* per adjacency entry, how often the loop body ran on it in this pass
    g_running,   \* main.c: the flag signal_handler clears
    pc,          \* main.c: where main stands in its detection loop
    args,        \* main.c: CommandLineArgs, its continuous_monitor and interval
    sleep_i,     \* main.c: the variable i of the waiting loop
    result,      \* main.c: what the last run_detection returned
    started      \* main.c: how many times run_detection has been called

vars == << graph, phase, cycle_list, buckets, report, ret, passes, procs, rag, wfg,
          system_locks, runs, stack, root, entered, examined,
          g_running, pc, args, sleep_i, result, started >>

\* What the graph operations leave alone, and what the detection pass over
\* collected processes leaves alone.
depVars == << system_locks, runs >>
dfsVars == << stack, root, entered, examined >>
mainVars == << g_running, pc, args, sleep_i, result, started >>
graphVars == << graph, cycle_list, buckets, passes, wfg >>

\* CommandLineArgs as parse_arguments leaves it when no option is given.
DefaultArgs == [continuous_monitor |-> 0, interval |-> DEFAULT_MONITORING_INTERVAL]

Pids == 1 .. MaxPid
Rids == 1 .. MaxRid

SeqsUpTo(S, n) == UNION { [1 .. k -> S] : k \in 0 .. n }

\* ProcessResourceInfo values offered to a detection pass.
PRIs == [ pid : PidInputs,
          held_resources : SeqsUpTo(Rids, MaxPerProc),
          waiting_resources : SeqsUpTo(Rids, MaxPerProc) ]

Init ==
    /\ graph = create_graph(MaxVertices)
    /\ phase = "build"
    /\ cycle_list = << >>
    /\ buckets = NoBuckets
    /\ report = create_deadlock_report
    /\ ret = 0
    /\ passes = 0
    /\ procs = << >>
    /\ rag = NULL_GRAPH
    /\ wfg = NULL_GRAPH
    /\ system_locks = << >>
    /\ runs = 0
    /\ stack = << >>
    /\ root = 0
    /\ entered = << >>
    /\ examined = << >>
    /\ g_running = 1
    /\ pc = "main"
    /\ args = DefaultArgs
    /\ sleep_i = 0
    /\ result = SUCCESS
    /\ started = 0

AddProcessVertex(pid) ==
    /\ phase = "build"
    /\ graph' = add_process_vertex(graph, pid).graph
    /\ UNCHANGED << phase, cycle_list, buckets, report, ret, passes, procs, rag, wfg >>
    /\ UNCHANGED depVars
    /\ UNCHANGED mainVars
    /\ UNCHANGED dfsVars

AddResourceVertex(rid, instances) ==
    /\ phase = "build"
    /\ graph' = add_resource_vertex(graph, rid, instances).graph
    /\ UNCHANGED << phase, cycle_list, buckets, report, ret, passes, procs, rag, wfg >>
    /\ UNCHANGED depVars
    /\ UNCHANGED mainVars
    /\ UNCHANGED dfsVars

AddRequestEdge(pid, rid) ==
    /\ phase = "build"
    /\ graph.num_edges < MaxEdges
    /\ graph' = add_request_edge(graph, pid, rid).graph
    /\ UNCHANGED << phase, cycle_list, buckets, report, ret, passes, procs, rag, wfg >>
    /\ UNCHANGED depVars
    /\ UNCHANGED mainVars
    /\ UNCHANGED dfsVars

AddAllocationEdge(rid, pid) ==
    /\ phase = "build"
    /\ graph.num_edges < MaxEdges
    /\ graph' = add_allocation_edge(graph, rid, pid).graph
    /\ UNCHANGED << phase, cycle_list, buckets, report, ret, passes, procs, rag, wfg >>
    /\ UNCHANGED depVars
    /\ UNCHANGED mainVars
    /\ UNCHANGED dfsVars

\* has_cycle(graph, &cycles, &num_cycles), which is find_all_cycles plus the verdict.
HasCycle ==
    LET returns(r) ==
            /\ graph' = r.graph
            /\ cycle_list' = r.cycles
            /\ ret' = r.ret
    IN  /\ phase = "build"
        /\ passes < MaxPasses
        /\ passes' = passes + 1
        /\ returns(has_cycle(graph))
        /\ phase' = "found"
        /\ UNCHANGED << buckets, report, procs, rag, wfg >>
        /\ UNCHANGED depVars
        /\ UNCHANGED mainVars
        /\ UNCHANGED dfsVars

\* analyze_cycles_for_deadlock(cycles, num_cycles, graph, report)
AnalyzeCycles ==
    LET returns(r) ==
            /\ report' = r.report
            /\ buckets' = r.buckets
            /\ ret' = r.ret
    IN  /\ phase = "found"
        /\ returns(analyze_cycles_for_deadlock(cycle_list, graph, report))
        /\ phase' = "analyzed"
        /\ UNCHANGED << graph, cycle_list, passes, procs, rag, wfg >>
        /\ UNCHANGED depVars
        /\ UNCHANGED mainVars
        /\ UNCHANGED dfsVars

\* detect_deadlock_in_system(procs, num_procs, report) on a fresh report, as
\* main.c and the tests call it: the pass builds its own graph from procs.
DetectDeadlockInSystem ==
    LET returns(r) ==
            /\ report' = r.report
            /\ rag' = r.rag
            /\ ret' = r.ret
    IN  /\ phase = "build"
        /\ graph = create_graph(MaxVertices)
        /\ \E procs_in \in SeqsUpTo(PRIs, MaxProcs) :
              /\ returns(detect_deadlock_in_system(procs_in, report))
              /\ procs' = procs_in
        /\ phase' = "detected"
        /\ UNCHANGED << graph, cycle_list, buckets, passes, wfg >>
        /\ UNCHANGED depVars
        /\ UNCHANGED mainVars
        /\ UNCHANGED dfsVars

\* convert_to_wfg(graph, &wfg)
ConvertToWfg ==
    LET returns(r) ==
            /\ wfg' = r.wfg
            /\ ret' = r.ret
    IN  /\ phase = "build"
        /\ passes = 0
        /\ returns(convert_to_wfg(graph))
        /\ phase' = "converted"
        /\ UNCHANGED << graph, cycle_list, buckets, report, passes, procs, rag >>
        /\ UNCHANGED depVars
        /\ UNCHANGED mainVars
        /\ UNCHANGED dfsVars

\* free_cycle_list, free_deadlock_report, free_graph of the derived graphs and a
\* new create_deadlock_report.
FreeResults ==
    /\ phase \in {"found", "analyzed", "detected", "converted"}
    /\ phase \in {"detected", "converted"} \/ passes < MaxPasses
    /\ phase' = "build"
    /\ cycle_list' = << >>
    /\ buckets' = NoBuckets
    /\ report' = create_deadlock_report
    /\ ret' = 0
    /\ procs' = << >>
    /\ rag' = NULL_GRAPH
    /\ wfg' = NULL_GRAPH
    /\ UNCHANGED << graph, passes >>
    /\ UNCHANGED depVars
    /\ UNCHANGED mainVars
    /\ UNCHANGED dfsVars

Next ==
    \/ \E pid \in PidInputs : AddProcessVertex(pid)
    \/ \E rid \in RidInputs, instances \in InstanceInputs : AddResourceVertex(rid, instances)
    \/ \E pid \in PidInputs, rid \in RidInputs : AddRequestEdge(pid, rid)
    \/ \E rid \in RidInputs, pid \in PidInputs : AddAllocationEdge(rid, pid)
    \/ HasCycle
    \/ AnalyzeCycles
    \/ DetectDeadlockInSystem
    \/ ConvertToWfg
    \/ FreeResults

Spec == Init /\ [][Next]_vars

\* ------------------------------------------- a detection pass over collected processes
\* run_detection of main.c: get_process_resources for every pid, then
\* analyze_pipe_and_lock_dependencies, then detect_deadlock_in_system.

LockIds == {7, 42}
PipeInodes == {42, 1000042}

SeqsNoDup(S, n) ==
    { s \in SeqsUpTo(S, n) : \A i, j \in 1 .. Len(s) : i # j => s[i] # s[j] }

\* What get_process_resources fills in for one process: held_resources holds the
\* ids of its locks in an array of exactly that many slots, the waiting lists
\* are NULL, and the pipe inodes and the two blocked flags come from /proc.
CollectedPRI(pid, held, pipes, blocked_on_pipe, blocked_on_lock) ==
    [ pid                |-> pid,
      held_resources     |-> held,
      held_capacity      |-> Len(held),
      held_overrun       |-> FALSE,
      waiting_resources  |-> << >>,
      waiting_on_pids    |-> << >>,
      pipe_inodes        |-> pipes,
      is_blocked_on_pipe |-> blocked_on_pipe,
      is_blocked_on_lock |-> blocked_on_lock ]

CollectedPRIs(pid) ==
    { CollectedPRI(pid, held, pipes, bp, bl) :
        held \in SeqsNoDup(LockIds, MaxHeldLocks),
        pipes \in SeqsUpTo(PipeInodes, MaxPipes),
        bp \in {0, 1}, bl \in {0, 1} }

LockInputs == [ lock_id : LockIds, pid : 1 .. MaxProcs, is_blocking : {0, 1} ]

\* Every scan of up to MaxProcs processes and MaxLocks system locks.
SmallScans ==
    { [procs |-> ps, locks |-> ls] :
        ps \in {<< >>} \cup { << a >> : a \in CollectedPRIs(1) }
                       \cup { << a, b >> : a \in CollectedPRIs(1), b \in CollectedPRIs(2) },
        ls \in SeqsUpTo(LockInputs, MaxLocks) }

\* Two processes that share n pipes, the first of them blocked on a pipe.
SharedPipesScan(n) ==
    [ procs |-> << CollectedPRI(1, << >>, [k \in 1 .. n |-> k], 1, 0),
                   CollectedPRI(2, << >>, [k \in 1 .. n |-> k], 0, 0) >>,
      locks |-> << >> ]

\* n processes that share one pipe, the first of them blocked on it.
SharersScan(n) ==
    [ procs |-> [i \in 1 .. n |-> CollectedPRI(i, << >>, << 42 >>,
                                               IF i = 1 THEN 1 ELSE 0, 0)],
      locks |-> << >> ]

\* A process blocked on a lock, m processes in all, and n blocking locks held
\* in turn by the other m - 1 processes.
BlockingLocksScan(n, m) ==
    [ procs |-> [i \in 1 .. m |-> CollectedPRI(i, << >>, << >>, 0,
                                               IF i = 1 THEN 1 ELSE 0)],
      locks |-> [j \in 1 .. n |->
                    [lock_id |-> j, pid |-> 2 + ((j - 1) % (m - 1)), is_blocking |-> 1]] ]

Scans ==
    SmallScans
    \cup { SharedPipesScan(n) : n \in MaxSharedPipes - 1 .. MaxSharedPipes }
    \cup { SharersScan(n) : n \in MaxSharers - 1 .. MaxSharers }
    \cup { BlockingLocksScan(n, MaxSharers) : n \in MaxBlockingLocks - 1 .. MaxBlockingLocks }

\* What a write past the end of held_resources can lead to: the value lands in
\* the slack of the allocation and reads back, or the allocator aborts the run.
OverrunOutcomes == {"kept", "abort"}

InitDeps ==
    /\ graph = NULL_GRAPH
    /\ phase = "scan"
    /\ cycle_list = << >>
    /\ buckets = NoBuckets
    /\ report = create_deadlock_report
    /\ ret = 0
    /\ passes = 0
    /\ procs = << >>
    /\ rag = NULL_GRAPH
    /\ wfg = NULL_GRAPH
    /\ system_locks = << >>
    /\ runs = 0
    /\ stack = << >>
    /\ root = 0
    /\ entered = << >>
    /\ examined = << >>
    /\ g_running = 1
    /\ pc = "main"
    /\ args = DefaultArgs
    /\ sleep_i = 0
    /\ result = SUCCESS
    /\ started = 0

\* Step 2 of run_detection, and the locks parse_system_locks will read.
CollectResources ==
    /\ phase = "scan"
    /\ \E scan \in Scans :
          /\ procs' = scan.procs
          /\ system_locks' = scan.locks
    /\ phase' = "collected"
    /\ UNCHANGED << report, ret, rag, runs >>
    /\ UNCHANGED graphVars
    /\ UNCHANGED mainVars
    /\ UNCHANGED dfsVars

\* analyze_pipe_and_lock_dependencies(procs, num_procs)
AnalyzeDependencies ==
    LET completes(r) ==
            /\ procs' = r.procs
            /\ ret' = r.ret
            /\ phase' = "extracted"
        aborts ==
            /\ procs' = procs
            /\ ret' = ret
            /\ phase' = "aborted"
        returns(r) ==
            IF \E i \in 1 .. Len(procs) : r.procs[i].held_overrun /\ ~ procs[i].held_overrun
            THEN \E outcome \in OverrunOutcomes :
                    IF outcome = "kept" THEN completes(r) ELSE aborts
            ELSE completes(r)
    IN  /\ phase \in {"collected", "extracted"}
        /\ runs < MaxRuns
        /\ runs' = runs + 1
        /\ returns(analyze_pipe_and_lock_dependencies(procs, system_locks))
        /\ UNCHANGED << report, rag, system_locks >>
        /\ UNCHANGED graphVars
        /\ UNCHANGED mainVars
        /\ UNCHANGED dfsVars

\* Step 3 of run_detection: detect_deadlock_in_system on the analysed array.
DetectAfterExtraction ==
    LET returns(r) ==
            /\ report' = r.report
            /\ rag' = r.rag
            /\ ret' = r.ret
    IN  /\ phase = "extracted"
        /\ Len(procs) <= MaxProcs
        /\ \A i \in 1 .. Len(procs) :
              /\ Len(procs[i].held_resources) <= MaxPerProc
              /\ Len(procs[i].waiting_resources) <= MaxPerProc
        /\ returns(detect_deadlock_in_system(procs, report))
        /\ phase' = "reported"
        /\ UNCHANGED << procs, system_locks, runs >>
        /\ UNCHANGED graphVars
        /\ UNCHANGED mainVars
        /\ UNCHANGED dfsVars

NextDeps ==
    \/ CollectResources
    \/ AnalyzeDependencies
    \/ DetectAfterExtraction

SpecDeps == InitDeps /\ [][NextDeps]_vars

\* ------------------------------------------- the cycle list of the enumerator
\* add_cycle_to_list applied to closed paths, one after the other.

\* The closed paths over MaxCycleVertices vertices whose body repeats no
\* vertex, as extract_cycle_path stores them: cycle_path ends with its first
\* vertex and cycle_length counts that closing vertex.
StoredPaths ==
    { [cycle_length |-> Len(b) + 1, cycle_path |-> Append(b, b[1])] :
        b \in { q \in UNION { [1 .. n -> 0 .. MaxCycleVertices - 1] : n \in 1 .. MaxCycleVertices } :
                  \A i, j \in 1 .. Len(q) : i # j => q[i] # q[j] } }

InitList ==
    /\ graph = NULL_GRAPH
    /\ phase = "list"
    /\ cycle_list = << >>
    /\ buckets = NoBuckets
    /\ report = create_deadlock_report
    /\ ret = 0
    /\ passes = 0
    /\ procs = << >>
    /\ rag = NULL_GRAPH
    /\ wfg = NULL_GRAPH
    /\ system_locks = << >>
    /\ runs = 0
    /\ stack = << >>
    /\ root = 0
    /\ entered = << >>
    /\ examined = << >>
    /\ g_running = 1
    /\ pc = "main"
    /\ args = DefaultArgs
    /\ sleep_i = 0
    /\ result = SUCCESS
    /\ started = 0

\* add_cycle_to_list(&cycle_list, &num_cycles, &capacity, &cycle)
AddCycleToList(cycle) ==
    /\ phase = "list"
    /\ Len(cycle_list) < MaxListLen
    /\ cycle_list' = add_cycle_to_list(cycle_list, cycle)
    /\ ret' = SUCCESS
    /\ UNCHANGED << graph, phase, buckets, report, passes, procs, rag, wfg >>
    /\ UNCHANGED depVars
    /\ UNCHANGED mainVars
    /\ UNCHANGED dfsVars

\* free_cycle_list
FreeCycleList ==
    /\ phase = "list"
    /\ cycle_list # << >>
    /\ cycle_list' = << >>
    /\ ret' = 0
    /\ UNCHANGED << graph, phase, buckets, report, passes, procs, rag, wfg >>
    /\ UNCHANGED depVars
    /\ UNCHANGED mainVars
    /\ UNCHANGED dfsVars

NextList ==
    \/ \E cycle \in StoredPaths : AddCycleToList(cycle)
    \/ FreeCycleList

SpecList == InitList /\ [][NextList]_vars

\* ------------------------------------------- one find_all_cycles pass, step by step
\* The calls of dfs_visit_recursive that are active form the stack; a step is
\* one turn of the root loop of find_all_cycles, one turn of the neighbour loop
\* of the innermost call, or the return of the innermost call.  color[] and
\* parent[] are the arrays of graph, as find_all_cycles passes them.

MaxDfsPasses == 2

\* dfs_visit_recursive from its entry to its loop: the argument test and
\* color[vertex] = COLOR_GRAY with the entry coloured BLACK at once.
dfs_visit_enter_black(g, vertex) ==
    IF vertex < 0 \/ vertex >= g.num_vertices
    THEN [graph |-> g, ret |-> ERROR_INVALID_ARGUMENT]
    ELSE [graph |-> [g EXCEPT !.color[vertex] = COLOR_BLACK], ret |-> SUCCESS]

\* dfs_visit_recursive from its entry to its loop.  Result: [graph, ret].
dfs_visit_enter(g, vertex) ==
    IF vertex < 0 \/ vertex >= g.num_vertices
    THEN [graph |-> g, ret |-> ERROR_INVALID_ARGUMENT]
    ELSE [graph |-> [g EXCEPT !.color[vertex] = COLOR_GRAY], ret |-> SUCCESS]

\* The caller's side of a return with current left where it is.
resume_caller_stay(callers) == callers

\* The caller's side of a return of dfs_visit_recursive with SUCCESS:
\* current = current->next in the calling dfs_visit_recursive.
resume_caller(callers) ==
    IF callers = << >> THEN callers
    ELSE [callers EXCEPT ![Len(callers)].k = @ + 1]

\* A call dfs_visit_recursive(g, vertex, ...): a new innermost call, or, on an
\* error, the failure of the whole pass (find_all_cycles frees the list).
CallDfsVisit(g, vertex) ==
    LET entry(e) ==
            IF e.ret # SUCCESS
            THEN /\ graph' = e.graph
                 /\ stack' = << >>
                 /\ cycle_list' = << >>
                 /\ ret' = e.ret
                 /\ phase' = "failed"
                 /\ UNCHANGED entered
            ELSE /\ graph' = e.graph
                 /\ stack' = Append(stack, [vertex |-> vertex, k |-> 1])
                 /\ entered' = [entered EXCEPT ![vertex] = @ + 1]
                 /\ UNCHANGED << cycle_list, ret, phase >>
    IN  entry(dfs_visit_enter(g, vertex))

\* find_all_cycles up to its loop.
FindAllCyclesEnter ==
    /\ \/ phase = "build" /\ passes = 0
       \/ phase = "found" /\ passes < MaxDfsPasses
    /\ graph' = reset_graph_colors(graph)
    /\ cycle_list' = << >>
    /\ root' = 0
    /\ stack' = << >>
    /\ entered' = [v \in 0 .. graph.num_vertices - 1 |-> 0]
    /\ examined' = [v \in 0 .. graph.num_vertices - 1 |->
                       [k \in 1 .. Len(graph.adjacency_list[v]) |-> 0]]
    /\ phase' = "dfs"
    /\ UNCHANGED << buckets, report, ret, passes, procs, rag, wfg >>
    /\ UNCHANGED depVars
    /\ UNCHANGED mainVars

\* One turn of the for loop of find_all_cycles.
FindAllCyclesRoot ==
    /\ phase = "dfs"
    /\ stack = << >>
    /\ root < graph.num_vertices
    /\ IF graph.color[root] = COLOR_WHITE
       THEN /\ CallDfsVisit(prepare_root(graph, graph), root)
            /\ UNCHANGED root
       ELSE /\ root' = root + 1
            /\ UNCHANGED << graph, stack, cycle_list, ret, phase, entered >>
    /\ UNCHANGED << buckets, report, passes, procs, rag, wfg, examined >>
    /\ UNCHANGED depVars
    /\ UNCHANGED mainVars

\* One turn of the while loop of the innermost dfs_visit_recursive.
DfsVisitNeighbor ==
    LET top == stack[Len(stack)]
        vertex == top.vertex
        neighbor == graph.adjacency_list[vertex][top.k].vertex_id
        after_extract(e) ==
            cycle_list' = IF e.ret = SUCCESS THEN add_cycle_to_list(cycle_list, e.cycle)
                          ELSE cycle_list
    IN  /\ phase = "dfs"
        /\ stack # << >>
        /\ top.k <= Len(graph.adjacency_list[vertex])
        /\ examined' = [examined EXCEPT ![vertex][top.k] = @ + 1]
        /\ IF neighbor < 0 \/ neighbor >= graph.num_vertices
           THEN /\ stack' = resume_caller(stack)
                /\ UNCHANGED << graph, cycle_list, ret, phase, entered >>
           ELSE IF graph.color[neighbor] = COLOR_WHITE
           THEN CallDfsVisit([graph EXCEPT !.parent[neighbor] = vertex], neighbor)
           ELSE IF graph.color[neighbor] = COLOR_GRAY
           THEN /\ after_extract(extract_cycle_path(graph.parent, neighbor, vertex, graph))
                /\ stack' = resume_caller(stack)
                /\ UNCHANGED << graph, ret, phase, entered >>
           ELSE /\ stack' = resume_caller(stack)
                /\ UNCHANGED << graph, cycle_list, ret, phase, entered >>
        /\ UNCHANGED << buckets, report, passes, procs, rag, wfg, root >>
        /\ UNCHANGED depVars
        /\ UNCHANGED mainVars

\* The innermost dfs_visit_recursive leaves its loop: color[vertex] = COLOR_BLACK
\* and return SUCCESS, to the calling dfs_visit_recursive or to find_all_cycles.
DfsVisitReturn ==
    LET top == stack[Len(stack)]
        vertex == top.vertex
    IN  /\ phase = "dfs"
        /\ stack # << >>
        /\ top.k > Len(graph.adjacency_list[vertex])
        /\ graph' = [graph EXCEPT !.color[vertex] = COLOR_BLACK]
        /\ stack' = resume_caller(SubSeq(stack, 1, Len(stack) - 1))
        /\ root' = IF Len(stack) = 1 THEN root + 1 ELSE root
        /\ UNCHANGED << cycle_list, ret, phase, entered, examined >>
        /\ UNCHANGED << buckets, report, passes, procs, rag, wfg >>
        /\ UNCHANGED depVars
        /\ UNCHANGED mainVars

\* find_all_cycles after its loop: *cycle_list = cycles; return SUCCESS.
FindAllCyclesReturn ==
    /\ phase = "dfs"
    /\ stack = << >>
    /\ root >= graph.num_vertices
    /\ ret' = SUCCESS
    /\ passes' = passes + 1
    /\ phase' = "found"
    /\ UNCHANGED << graph, cycle_list, buckets, report, procs, rag, wfg >>
    /\ UNCHANGED depVars
    /\ UNCHANGED mainVars
    /\ UNCHANGED dfsVars

\* The steps of a pass that is running.
DfsStep ==
    \/ FindAllCyclesRoot
    \/ DfsVisitNeighbor
    \/ DfsVisitReturn
    \/ FindAllCyclesReturn

NextDfs ==
    \/ \E pid \in PidInputs : AddProcessVertex(pid)
    \/ \E pid \in PidInputs, rid \in RidInputs : AddRequestEdge(pid, rid)
    \/ \E rid \in RidInputs, pid \in PidInputs : AddAllocationEdge(rid, pid)
    \/ FindAllCyclesEnter
    \/ DfsStep

SpecDfs == Init /\ [][NextDfs]_vars

\* One pass over a graph built by the edge operations alone.
NextDfsLive ==
    \/ \E pid \in PidInputs, rid \in RidInputs : AddRequestEdge(pid, rid)
    \/ \E rid \in RidInputs, pid \in PidInputs : AddAllocationEdge(rid, pid)
    \/ phase = "build" /\ FindAllCyclesEnter
    \/ DfsStep

\* A call of find_all_cycles keeps running: nothing suspends it.
SpecDfsLive == Init /\ [][NextDfsLive]_vars /\ WF_vars(DfsStep)

\* ------------------------------------------- the detection loop of main (main.c)
\* main after its set-up: the do-while loop around run_detection, with
\* signal_handler running between any two of its steps.  pc: "top" (before the
\* test of g_running at the head of the body), "call" (before the call of
\* run_detection), "detect" (run_detection is running), "wait_test",
\* "for_test", "sleep" (inside sleep(1)), "while_test", "stopped".

coreVars == << graph, phase, cycle_list, buckets, report, ret, passes, procs, rag, wfg,
              system_locks, runs, stack, root, entered, examined >>

InitMain ==
    /\ graph = NULL_GRAPH
    /\ phase = "main"
    /\ cycle_list = << >>
    /\ buckets = NoBuckets
    /\ report = create_deadlock_report
    /\ ret = 0
    /\ passes = 0
    /\ procs = << >>
    /\ rag = NULL_GRAPH
    /\ wfg = NULL_GRAPH
    /\ system_locks = << >>
    /\ runs = 0
    /\ stack = << >>
    /\ root = 0
    /\ entered = << >>
    /\ examined = << >>
    /\ g_running = 1
    /\ pc = "top"
    /\ args \in [continuous_monitor : {0, 1},
                 interval : MIN_MONITORING_INTERVAL .. MaxInterval]
    /\ sleep_i = 0
    /\ result = SUCCESS
    /\ started = 0

\* signal_handler(SIGINT), while the process lives.
SignalHandler ==
    /\ pc # "stopped"
    /\ g_running' = 0
    /\ UNCHANGED << pc, args, sleep_i, result, started >>
    /\ UNCHANGED coreVars

\* if (!g_running) break;
LoopTop ==
    /\ pc = "top"
    /\ IF g_running = 0 THEN pc' = "stopped"
       ELSE started < MaxDetections /\ pc' = "call"
    /\ UNCHANGED << g_running, args, sleep_i, result, started >>
    /\ UNCHANGED coreVars

\* The call run_detection(&args).
RunDetectionCall ==
    /\ pc = "call"
    /\ started' = started + 1
    /\ pc' = "detect"
    /\ UNCHANGED << g_running, args, sleep_i, result >>
    /\ UNCHANGED coreVars

\* run_detection returns r; in one-shot mode an error leaves the loop.
RunDetectionReturn(r) ==
    /\ pc = "detect"
    /\ result' = r
    /\ pc' = IF r # SUCCESS /\ args.continuous_monitor = 0 THEN "stopped" ELSE "wait_test"
    /\ UNCHANGED << g_running, args, sleep_i, started >>
    /\ UNCHANGED coreVars

\* if (args.continuous_monitor && g_running), and int i = 0.
WaitTest ==
    /\ pc = "wait_test"
    /\ IF args.continuous_monitor # 0 /\ g_running # 0
       THEN sleep_i' = 0 /\ pc' = "for_test"
       ELSE sleep_i' = sleep_i /\ pc' = "while_test"
    /\ UNCHANGED << g_running, args, result, started >>
    /\ UNCHANGED coreVars

\* The test of the waiting loop without its look at g_running.
ForTest_unflagged ==
    /\ pc = "for_test"
    /\ pc' = IF sleep_i < args.interval THEN "sleep" ELSE "while_test"
    /\ UNCHANGED << g_running, args, sleep_i, result, started >>
    /\ UNCHANGED coreVars

\* i < args.interval && g_running
ForTest ==
    /\ pc = "for_test"
    /\ pc' = IF sleep_i < args.interval /\ g_running # 0 THEN "sleep" ELSE "while_test"
    /\ UNCHANGED << g_running, args, sleep_i, result, started >>
    /\ UNCHANGED coreVars

\* sleep(1) returns, after its second or cut short by the signal; i++.
SleepReturn ==
    /\ pc = "sleep"
    /\ sleep_i' = sleep_i + 1
    /\ pc' = "for_test"
    /\ UNCHANGED << g_running, args, result, started >>
    /\ UNCHANGED coreVars

\* while (args.continuous_monitor && g_running)
WhileTest ==
    /\ pc = "while_test"
    /\ pc' = IF args.continuous_monitor # 0 /\ g_running # 0 THEN "top" ELSE "stopped"
    /\ UNCHANGED << g_running, args, sleep_i, result, started >>
    /\ UNCHANGED coreVars

\* The steps of main itself.
MainStep ==
    \/ LoopTop
    \/ RunDetectionCall
    \/ \E r \in {SUCCESS, ERROR_GRAPH_CREATION_FAILED} : RunDetectionReturn(r)
    \/ WaitTest
    \/ ForTest
    \/ SleepReturn
    \/ WhileTest

NextMain ==
    \/ SignalHandler
    \/ MainStep

\* main is scheduled, run_detection returns and sleep(1) returns.
SpecMain == InitMain /\ [][NextMain]_vars /\ WF_vars(MainStep)

\* ===================================================================== properties
\* Graph-theoretic notions, stated on vertices and edges only.

Vertices(g) == 0 .. g.num_vertices - 1

HasEdge(g, u, v) ==
    \E k \in 1 .. Len(g.adjacency_list[u]) : g.adjacency_list[u][k].vertex_id = v

EdgesOf(g) == { e \in Vertices(g) \X Vertices(g) : HasEdge(g, e[1], e[2]) }

RECURSIVE TransitiveClosure(_)
TransitiveClosure(R) ==
    LET R2 == R \cup { << x[1][1], x[2][2] >> : x \in { y \in R \X R : y[1][2] = y[2][1] } }
    IN  IF R2 = R THEN R ELSE TransitiveClosure(R2)

HasDirectedCycle(R) == \E e \in TransitiveClosure(R) : e[1] = e[2]

\* The RAG a PRI array induces: R -> P per held rid, P -> R per waited rid.
InducedEdges(ps) ==
    UNION { { << << "R", ps[i].held_resources[j] >>, << "P", ps[i].pid >> >> :
                 j \in 1 .. Len(ps[i].held_resources) }
            \cup
            { << << "P", ps[i].pid >>, << "R", ps[i].waiting_resources[j] >> >> :
                 j \in 1 .. Len(ps[i].waiting_resources) } : i \in 1 .. Len(ps) }

\* b is a rotation of a.
IsRotation(a, b) ==
    /\ Len(a) = Len(b)
    /\ \E offset \in 0 .. Len(a) - 1 :
          \A j \in 0 .. Len(a) - 1 : a[((j + offset) % Len(a)) + 1] = b[j + 1]

\* A cycle's vertex sequence without the closing vertex.
Body(c) == SubSeq(c.cycle_path, 1, c.cycle_length - 1)

\* The elementary cycles of g, each once, written from its smallest vertex.
ElementaryCycles(g) ==
    { c \in UNION { [1 .. n -> Vertices(g)] : n \in 1 .. g.num_vertices } :
        /\ \A i, j \in 1 .. Len(c) : i # j => c[i] # c[j]
        /\ \A i \in 2 .. Len(c) : c[1] < c[i]
        /\ \A i \in 1 .. Len(c) - 1 : HasEdge(g, c[i], c[i + 1])
        /\ HasEdge(g, c[Len(c)], c[1]) }

\* C1: find_all_cycles returns every elementary cycle of the graph: each
\* elementary cycle is, modulo rotation, exactly one returned CycleInfo.
C1_EveryElementaryCycleReturned ==
    phase = "found" =>
        \A c \in ElementaryCycles(graph) :
            Cardinality({ i \in 1 .. Len(cycle_list) : IsRotation(Body(cycle_list[i]), c) }) = 1

\* C2: detection is exact for cycle existence.  A detection pass whose RAG was
\* built returns 1 with deadlock_detected = 1, num_cycles > 0 and
\* num_deadlocked > 0 iff the RAG induced by the PRIs has a directed cycle, and
\* 0 with all three at 0 otherwise; has_cycle returns 1 iff the graph has a
\* directed cycle and 0 iff it has none.
C2_DetectionExact ==
    /\ (phase = "detected" /\ ret >= 0) =>
          IF HasDirectedCycle(InducedEdges(procs))
          THEN /\ ret = 1
               /\ report.deadlock_detected = 1
               /\ report.num_cycles > 0
               /\ report.num_deadlocked > 0
          ELSE /\ ret = 0
               /\ report.deadlock_detected = 0
               /\ report.num_cycles = 0
               /\ report.num_deadlocked = 0
    /\ phase = "found" =>
          /\ ret \in {0, 1}
          /\ ret = 1 <=> HasDirectedCycle(EdgesOf(graph))

C2_Witness ==
    /\ phase = "detected"
    /\ ret = 1
    /\ Len(procs) = 2
    /\ HasDirectedCycle(InducedEdges(procs))

\* C3: every CycleInfo find_all_cycles returns is a closed cycle of the graph:
\* first entry = last entry, every entry a valid vertex index, every consecutive
\* pair an edge of the adjacency list (validate_cycle returns 1).
C3_EmittedCyclesAreReal ==
    phase = "found" =>
        \A i \in 1 .. Len(cycle_list) :
            LET c == cycle_list[i] IN
            /\ c.cycle_length = Len(c.cycle_path)
            /\ c.cycle_length >= 2
            /\ c.cycle_path[1] = c.cycle_path[c.cycle_length]
            /\ \A j \in 1 .. c.cycle_length : c.cycle_path[j] \in Vertices(graph)
            /\ \A j \in 1 .. c.cycle_length - 1 :
                  HasEdge(graph, c.cycle_path[j], c.cycle_path[j + 1])
            /\ validate_cycle(c, graph) = 1

C3_Witness ==
    /\ phase = "found"
    /\ \E i \in 1 .. Len(cycle_list) : cycle_list[i].cycle_length = 5

\* C4: no two cycles returned by one find_all_cycles call are rotations of each
\* other (closing vertex removed).
C4_NoRotatedDuplicates ==
    phase = "found" =>
        \A i, j \in 1 .. Len(cycle_list) :
            i # j => ~ IsRotation(Body(cycle_list[i]), Body(cycle_list[j]))

C4_Witness ==
    /\ phase = "found"
    /\ \E i, j \in 1 .. Len(cycle_list) :
          /\ i # j
          /\ \E k \in 1 .. cycle_list[i].cycle_length :
                cycle_list[i].cycle_path[k] = cycle_list[j].cycle_path[1]

\* C5: after detect_deadlock_in_system on a fresh report returns a non-negative
\* value, deadlock_detected = 1 iff report.num_cycles > 0 (report.cycles is
\* non-empty), and the return value is 1 exactly when deadlock_detected is 1.
C5_DetectedIffCycles ==
    (phase = "detected" /\ ret >= 0) =>
        /\ report.deadlock_detected \in {0, 1}
        /\ report.deadlock_detected = 1 <=> report.num_cycles > 0
        /\ report.num_cycles = Len(report.cycles)
        /\ ret = 1 <=> report.deadlock_detected = 1
        /\ ret \in {0, 1}

C5_Witness ==
    /\ phase = "detected"
    /\ ret = 1
    /\ report.num_cycles >= 2

\* The ids of the process vertices met when walking the cycles in order, closing
\* vertices skipped.
RECURSIVE PidsAlong(_, _)
PidsAlong(cycles, g) ==
    IF cycles = << >> THEN << >>
    ELSE LET body == Body(Head(cycles))
             IsProc(v) == g.vertex_type[v] = VERTEX_TYPE_PROCESS
             ps == SelectSeq(body, IsProc)
         IN  [i \in 1 .. Len(ps) |-> g.vertex_id[ps[i]]] \o PidsAlong(Tail(cycles), g)

\* s with every element kept at its first appearance only.
RECURSIVE FirstAppearances(_)
FirstAppearances(s) ==
    IF s = << >> THEN << >>
    ELSE LET r == FirstAppearances(SubSeq(s, 1, Len(s) - 1)) IN
         IF \E i \in 1 .. Len(r) : r[i] = s[Len(s)] THEN r ELSE Append(r, s[Len(s)])

\* The graph the report's cycles index into.
ReportGraph == IF phase = "detected" THEN rag ELSE graph

\* C6: report.deadlocked_pids is the list of distinct ids of the process
\* vertices on the report's cycles (closing vertex excluded), in order of first
\* appearance, without repetition, and num_deadlocked is its length.
C6_DeadlockedPidsExact ==
    ((phase = "analyzed" /\ ret = SUCCESS) \/ (phase = "detected" /\ ret = 1)) =>
        /\ report.deadlocked_pids = FirstAppearances(PidsAlong(report.cycles, ReportGraph))
        /\ report.num_deadlocked = Len(report.deadlocked_pids)
        /\ \A i, j \in 1 .. Len(report.deadlocked_pids) :
              i # j => report.deadlocked_pids[i] # report.deadlocked_pids[j]

C6_Witness ==
    /\ phase = "analyzed"
    /\ ret = SUCCESS
    /\ report.num_deadlocked >= 1
    /\ \E i, j \in 1 .. Len(report.cycles) :
          /\ i # j
          /\ \E v \in Vertices(graph) :
                /\ graph.vertex_type[v] = VERTEX_TYPE_PROCESS
                /\ \E k \in 1 .. Len(Body(report.cycles[i])) : Body(report.cycles[i])[k] = v
                /\ \E k \in 1 .. Len(Body(report.cycles[j])) : Body(report.cycles[j])[k] = v

\* Every resource vertex among the non-closing vertices of c is single-instance.
AllSingleInstance(c, g) ==
    \A j \in 1 .. Len(Body(c)) :
        g.vertex_type[Body(c)[j]] = VERTEX_TYPE_RESOURCE => g.vertex_instances[Body(c)[j]] = 1

DefiniteOf(cycles, g) ==
    LET Test(c) == AllSingleInstance(c, g) IN SelectSeq(cycles, Test)

PotentialOf(cycles, g) ==
    LET Test(c) == ~ AllSingleInstance(c, g) IN SelectSeq(cycles, Test)

\* C7: filter_actual_deadlocks puts a cycle in the definite bucket iff every
\* resource vertex among its non-closing vertices has instances = 1 and in the
\* potential bucket otherwise; the buckets partition the input and keep its order.
C7_FilterPartition ==
    (phase = "analyzed" /\ ret = SUCCESS) =>
        /\ buckets.definite = DefiniteOf(cycle_list, graph)
        /\ buckets.potential = PotentialOf(cycle_list, graph)
        /\ Len(buckets.definite) + Len(buckets.potential) = Len(cycle_list)

C7_Witness ==
    /\ phase = "analyzed"
    /\ ret = SUCCESS
    /\ Len(buckets.definite) >= 1
    /\ Len(buckets.potential) >= 1

\* C8: the report carries the definite cycles when there is one, else the
\* potential cycles; with no cycles deadlock_detected = 0; the two kinds are
\* never mixed in one report.
C8_SelectionRule ==
    phase = "analyzed" =>
        /\ DefiniteOf(cycle_list, graph) # << >> =>
              report.cycles = DefiniteOf(cycle_list, graph)
        /\ (DefiniteOf(cycle_list, graph) = << >> /\ PotentialOf(cycle_list, graph) # << >>) =>
              report.cycles = PotentialOf(cycle_list, graph)
        /\ cycle_list = << >> => report.deadlock_detected = 0
        /\ \/ \A i \in 1 .. Len(report.cycles) : AllSingleInstance(report.cycles[i], graph)
           \/ \A i \in 1 .. Len(report.cycles) : ~ AllSingleInstance(report.cycles[i], graph)

C8_Witness ==
    /\ phase = "analyzed"
    /\ PotentialOf(cycle_list, graph) # << >>
    /\ report.cycles # << >>
    /\ report.cycles = DefiniteOf(cycle_list, graph)

\* Every adjacency entry of g joins a process to a resource with a request
\* edge, or a resource to a process with an allocation edge.
BipartiteByKind(g) ==
    \A u \in Vertices(g) :
        \A k \in 1 .. Len(g.adjacency_list[u]) :
            LET e == g.adjacency_list[u][k] IN
            /\ e.vertex_id \in Vertices(g)
            /\ g.vertex_type[u] \in {VERTEX_TYPE_PROCESS, VERTEX_TYPE_RESOURCE}
            /\ g.vertex_type[u] = VERTEX_TYPE_PROCESS =>
                  /\ e.edge_type = REQUEST_EDGE
                  /\ g.vertex_type[e.vertex_id] = VERTEX_TYPE_RESOURCE
            /\ g.vertex_type[u] = VERTEX_TYPE_RESOURCE =>
                  /\ e.edge_type = ALLOCATION_EDGE
                  /\ g.vertex_type[e.vertex_id] = VERTEX_TYPE_PROCESS

\* C9: whatever vertex and edge operations were called, the RAG is bipartite by
\* kind, also when a pid and a rid are the same number.
C9_BipartiteByKind == BipartiteByKind(graph) /\ BipartiteByKind(rag)

C9_Witness ==
    \E u, v \in Vertices(graph) :
        /\ graph.vertex_type[u] = VERTEX_TYPE_PROCESS
        /\ graph.vertex_type[v] = VERTEX_TYPE_RESOURCE
        /\ graph.vertex_id[u] = graph.vertex_id[v]
        /\ HasEdge(graph, u, v)
        /\ HasEdge(graph, v, u)

\* What the public operations show of a graph: its vertices, its adjacency
\* lists, get_graph_statistics and the cycles find_all_cycles returns.
Observe(g) ==
    [ num_vertices |-> g.num_vertices,
      vertex_type |-> g.vertex_type,
      vertex_id |-> g.vertex_id,
      vertex_instances |-> g.vertex_instances,
      adjacency_list |-> g.adjacency_list,
      statistics |-> get_graph_statistics(g),
      cycles |-> find_all_cycles(reset_graph_colors(g)).cycles ]

\* C10: edge insertion is idempotent.  Whenever add_request_edge(pid, rid) or
\* add_allocation_edge(rid, pid) has succeeded, the same call made again yields
\* a graph that no public operation tells from the graph after the first call.
C10_EdgeInsertionIdempotent ==
    [][ \A pid \in Pids, rid \in Rids :
          /\ (AddRequestEdge(pid, rid) /\ add_request_edge(graph, pid, rid).ret = SUCCESS) =>
                Observe(add_request_edge(graph', pid, rid).graph) = Observe(graph')
          /\ (AddAllocationEdge(rid, pid) /\ add_allocation_edge(graph, rid, pid).ret = SUCCESS) =>
                Observe(add_allocation_edge(graph', rid, pid).graph) = Observe(graph') ]_vars

\* The indices at which a vertex of the given kind and id sits.
IndicesOf(g, type, id) ==
    { i \in Vertices(g) : g.vertex_type[i] = type /\ g.vertex_id[i] = id }

\* No (kind, id) sits at two indices.
UniqueKeys(g) ==
    \A i, j \in Vertices(g) :
        (g.vertex_type[i] = g.vertex_type[j] /\ g.vertex_id[i] = g.vertex_id[j]) => i = j

C12_InstancesKeptByEdges ==
    LET kept(r, i, k) == r.graph.vertex_instances[i] = k
    IN  \A rid \in Rids, pid \in Pids :
            \A i \in IndicesOf(graph, VERTEX_TYPE_RESOURCE, rid) :
                graph.vertex_instances[i] > 1 =>
                    /\ kept(add_request_edge(graph, pid, rid), i, graph.vertex_instances[i])
                    /\ kept(add_allocation_edge(graph, rid, pid), i, graph.vertex_instances[i])

\* g consists of pairwise vertex-disjoint cycles and nothing else: every vertex
\* has exactly one outgoing and exactly one incoming edge.
DisjointCyclesOnly(g) ==
    /\ g.num_vertices > 0
    /\ \A v \in Vertices(g) :
          /\ Len(g.adjacency_list[v]) = 1
          /\ Cardinality({ u \in Vertices(g) : HasEdge(g, u, v) }) = 1

\* The ids of the process vertices of g.
ProcessIds(g) ==
    { g.vertex_id[v] : v \in { u \in Vertices(g) : g.vertex_type[u] = VERTEX_TYPE_PROCESS } }

\* C13: for a RAG that consists of N pairwise vertex-disjoint cycles and
\* nothing else, find_all_cycles returns exactly N cycles, one per cycle of the
\* graph, and a detection pass whose RAG has that shape reports num_cycles = N
\* with deadlocked_pids equal to the set of all pids on those cycles.
C13_DisjointCyclesCounted ==
    /\ (phase = "found" /\ DisjointCyclesOnly(graph)) =>
          /\ ret = 1
          /\ Len(cycle_list) = Cardinality(ElementaryCycles(graph))
          /\ \A c \in ElementaryCycles(graph) :
                \E i \in 1 .. Len(cycle_list) : IsRotation(Body(cycle_list[i]), c)
    /\ (phase = "detected" /\ DisjointCyclesOnly(rag)) =>
          /\ ret = 1
          /\ report.deadlock_detected = 1
          /\ report.num_cycles = Cardinality(ElementaryCycles(rag))
          /\ Len(report.cycles) = report.num_cycles
          /\ report.num_deadlocked = Cardinality(ProcessIds(rag))
          /\ { report.deadlocked_pids[k] : k \in 1 .. Len(report.deadlocked_pids) }
                = ProcessIds(rag)

\* A detection pass over two processes whose RAG is two disjoint cycles.
C13_Witness ==
    /\ phase = "detected"
    /\ DisjointCyclesOnly(rag)
    /\ Cardinality(ElementaryCycles(rag)) = 2
    /\ report.num_cycles = 2
    /\ Cardinality(ProcessIds(rag)) = 2

\* The distinct pids and the distinct resource ids a PRI array mentions.
DistinctPids(ps) == { ps[i].pid : i \in 1 .. Len(ps) }

DistinctRids(ps) ==
    UNION { { ps[i].held_resources[j] : j \in 1 .. Len(ps[i].held_resources) }
            \cup { ps[i].waiting_resources[j] : j \in 1 .. Len(ps[i].waiting_resources) } :
            i \in 1 .. Len(ps) }

\* C16: build_rag_from_processes succeeds, with a graph that holds every pid
\* and every resource id of the array, for every non-empty PRI array of valid
\* pids whose numbers of distinct pids and of distinct resource ids are within
\* max_processes and max_resources, whatever the ratio between the two.
C16_BuildSucceedsWithinCaps ==
    LET complete(b, ps) ==
            /\ b.ret = SUCCESS
            /\ \A pid \in DistinctPids(ps) : find_vertex_by_pid(b.graph, pid) >= 0
            /\ \A rid \in DistinctRids(ps) : find_vertex_by_rid(b.graph, rid) >= 0
    IN  (/\ phase = "detected"
         /\ Len(procs) > 0
         /\ \A i \in 1 .. Len(procs) : procs[i].pid > 0
         /\ Cardinality(DistinctPids(procs)) <= MAX_PROCESSES
         /\ Cardinality(DistinctRids(procs)) <= MAX_RESOURCES) =>
            complete(build_rag_from_processes(procs), procs)

\* The wait-for relation of a RAG on pids: P1 waits for P2 when P1 requests a
\* resource that is allocated to P2.
WaitsFor(g) ==
    { << g.vertex_id[p1], g.vertex_id[p2] >> : << p1, p2 >> \in
        { e \in Vertices(g) \X Vertices(g) :
            /\ g.vertex_type[e[1]] = VERTEX_TYPE_PROCESS
            /\ g.vertex_type[e[2]] = VERTEX_TYPE_PROCESS
            /\ \E r \in Vertices(g) :
                  /\ g.vertex_type[r] = VERTEX_TYPE_RESOURCE
                  /\ \E k \in 1 .. Len(g.adjacency_list[e[1]]) :
                        /\ g.adjacency_list[e[1]][k].vertex_id = r
                        /\ g.adjacency_list[e[1]][k].edge_type = REQUEST_EDGE
                  /\ \E k \in 1 .. Len(g.adjacency_list[r]) :
                        /\ g.adjacency_list[r][k].vertex_id = e[2]
                        /\ g.adjacency_list[r][k].edge_type = ALLOCATION_EDGE } }

Elems(s) == { s[k] : k \in 1 .. Len(s) }

\* Processes a and b of the array have pipe inode n open, both of them.
SharePipe(ps, a, b, n) ==
    /\ a # b
    /\ n \in Elems(ps[a].pipe_inodes)
    /\ n \in Elems(ps[b].pipe_inodes)

C17_PipeHolderRule ==
    [][ (AnalyzeDependencies /\ phase' = "extracted" /\ Len(procs) <= MaxProcs) =>
           /\ \A b \in 1 .. Len(procs) :
                 \A rid \in Elems(procs'[b].held_resources) \ Elems(procs[b].held_resources) :
                     \E a \in 1 .. Len(procs) :
                         \E n \in Elems(procs[a].pipe_inodes) :
                             /\ SharePipe(procs, a, b, n)
                             /\ n % 1000000 = rid
                             /\ procs[a].is_blocked_on_pipe = 1
           /\ (\A i \in 1 .. Len(procs) :
                  procs[i].is_blocked_on_pipe = 0 /\ procs[i].is_blocked_on_lock = 0) =>
                 \A i \in 1 .. Len(procs) :
                     /\ procs'[i].held_resources = procs[i].held_resources
                     /\ procs'[i].waiting_resources = procs[i].waiting_resources
                     /\ procs'[i].waiting_on_pids = procs[i].waiting_on_pids ]_vars

\* No value occurs twice in s.
NoDuplicates(s) == \A i, j \in 1 .. Len(s) : i # j => s[i] # s[j]

\* C18: set semantics of the dependency extractor.  The collected arrays hold
\* no duplicates; after one or more runs of the analysis no value occurs twice
\* in any held_resources, waiting_resources or waiting_on_pids list, and one more
\* run on the analysed array changes nothing.
C18_ExtractorSetSemantics ==
    LET unchanged_by(r) == r.procs = procs /\ r.ret = SUCCESS
    IN  (phase = "extracted" /\ Len(procs) > 0) =>
            /\ \A i \in 1 .. Len(procs) :
                  /\ NoDuplicates(procs[i].held_resources)
                  /\ NoDuplicates(procs[i].waiting_resources)
                  /\ NoDuplicates(procs[i].waiting_on_pids)
            /\ unchanged_by(analyze_pipe_and_lock_dependencies(procs, system_locks))

\* Two runs over two blocked processes that share two pipes whose inodes give
\* the same resource id, one of them also waiting for a lock with that id.
C18_Witness ==
    /\ phase = "extracted"
    /\ runs = 2
    /\ Len(procs) = 2
    /\ procs[1].pipe_inodes = << 42, 1000042 >>
    /\ procs[2].pipe_inodes = << 1000042, 42 >>
    /\ procs[1].is_blocked_on_pipe = 1
    /\ procs[2].is_blocked_on_pipe = 1
    /\ procs[1].is_blocked_on_lock = 1
    /\ system_locks = << [lock_id |-> 42, pid |-> 2, is_blocking |-> 1] >>
    /\ procs[1].waiting_resources = << 42 >>
    /\ procs[1].held_resources = << 42 >>
    /\ procs[1].waiting_on_pids = << 2 >>

\* a is an initial part of b.
IsPrefix(a, b) == Len(a) <= Len(b) /\ \A k \in 1 .. Len(a) : a[k] = b[k]

\* C19: caps of the dependency extractor.  However many pipes and blocking
\* locks are shared, a run of the analysis returns SUCCESS and leaves every PRI
\* with at most 256 waiting resources and at most 128 waiting_on_pids; what a
\* list held before the run is still there, in place, after it.
C19_ExtractorCaps ==
    [][ (AnalyzeDependencies /\ phase' = "extracted" /\ Len(procs) > 0) =>
           /\ ret' = SUCCESS
           /\ Len(procs') = Len(procs)
           /\ \A i \in 1 .. Len(procs) :
                 /\ Len(procs'[i].waiting_resources) <= 256
                 /\ Len(procs'[i].waiting_on_pids) <= 128
                 /\ IsPrefix(procs[i].waiting_resources, procs'[i].waiting_resources)
                 /\ IsPrefix(procs[i].waiting_on_pids, procs'[i].waiting_on_pids)
                 /\ IsPrefix(procs[i].held_resources, procs'[i].held_resources) ]_vars

\* A process blocked on a lock while 257 blocking locks are held by 129 other
\* processes: both of its lists are full, the last lock and pid were dropped.
C19_Witness ==
    /\ phase = "extracted"
    /\ Len(system_locks) = 257
    /\ Len(procs) = 130
    /\ procs[1].waiting_resources = [k \in 1 .. 256 |-> k]
    /\ procs[1].waiting_on_pids = [k \in 1 .. 128 |-> k + 1]

\* C20: the duplicate test implements rotation equality.  For every cycle list
\* and every closed path c, is_duplicate_cycle(c, list, n) returns 1 iff some
\* cycle of the list, without its closing vertex, is a rotation of c without
\* its closing vertex.
C20_DuplicateIsRotationEquality ==
    phase = "list" =>
        \A c \in StoredPaths :
            is_duplicate_cycle(c, cycle_list, Len(cycle_list)) = 1
                <=> \E i \in 1 .. Len(cycle_list) : IsRotation(Body(cycle_list[i]), Body(c))

\* C21: the colouring state machine of one find_all_cycles pass.  While the
\* pass runs, the colour of a vertex changes only WHITE -> GRAY and
\* GRAY -> BLACK; every vertex is WHITE when the pass starts, whatever an earlier
\* pass left; when the pass returns SUCCESS every vertex in [0, num_vertices)
\* is BLACK.
C21_ColourStateMachine ==
    [][ /\ phase = "dfs" =>
              \A v \in Vertices(graph) :
                  graph'.color[v] # graph.color[v] =>
                      \/ graph.color[v] = COLOR_WHITE /\ graph'.color[v] = COLOR_GRAY
                      \/ graph.color[v] = COLOR_GRAY /\ graph'.color[v] = COLOR_BLACK
        /\ (phase # "dfs" /\ phase' = "dfs") =>
              \A v \in Vertices(graph') : graph'.color[v] = COLOR_WHITE
        /\ (phase = "dfs" /\ phase' # "dfs") =>
              /\ phase' = "found"
              /\ ret' = SUCCESS
              /\ \A v \in Vertices(graph') : graph'.color[v] = COLOR_BLACK ]_vars

\* A second pass over a graph of four vertices, at a moment when all three
\* colours are present.
C21_Witness ==
    /\ phase = "dfs"
    /\ passes = 1
    /\ graph.num_vertices = MaxVertices
    /\ \A c \in {COLOR_WHITE, COLOR_GRAY, COLOR_BLACK} :
          \E v \in Vertices(graph) : graph.color[v] = c

\* g as a fresh build leaves it: every colour WHITE, every parent -1.
FreshlyBuilt(g) ==
    [g EXCEPT !.color  = [i \in DOMAIN g.color |-> COLOR_WHITE],
              !.parent = [i \in DOMAIN g.parent |-> -1]]

\* g with every colour set to c and every parent set to p by hand.
Painted(g, c, p) ==
    [g EXCEPT !.color  = [i \in DOMAIN g.color |-> c],
              !.parent = [i \in DOMAIN g.parent |-> p]]

\* C22: the result of find_all_cycles depends on vertices and edges only.
\* Whatever colours and parents an earlier traversal, a manual change or
\* reset_graph_colors left, and also after edges were added since the last
\* traversal, find_all_cycles returns the cycles, in the order, it returns on
\* the freshly built identical graph; two calls in a row return equal lists.
C22_ResultIndependentOfDfsState ==
    LET same(a, b) == a.ret = b.ret /\ a.cycles = b.cycles
        as_fresh(g, f) ==
            /\ same(find_all_cycles(g), f)
            /\ same(find_all_cycles(reset_graph_colors(g)), f)
        independent(g, f) ==
            /\ as_fresh(g, f)
            /\ as_fresh(f.graph, f)
            /\ \A c \in {COLOR_WHITE, COLOR_GRAY, COLOR_BLACK}, p \in {-1, 0} :
                  same(find_all_cycles(Painted(g, c, p)), f)
            /\ \A pid \in Pids, rid \in Rids :
                  /\ f.graph.num_edges < MaxEdges =>
                        same(find_all_cycles(add_request_edge(f.graph, pid, rid).graph),
                             find_all_cycles(add_request_edge(FreshlyBuilt(g), pid, rid).graph))
                  /\ f.graph.num_edges < MaxEdges =>
                        same(find_all_cycles(add_allocation_edge(f.graph, rid, pid).graph),
                             find_all_cycles(add_allocation_edge(FreshlyBuilt(g), rid, pid).graph))
    IN  /\ phase = "build" => independent(graph, find_all_cycles(FreshlyBuilt(graph)))
        /\ (phase = "found" /\ ret >= 0) =>
              /\ find_all_cycles(graph).cycles = cycle_list
              /\ find_all_cycles(FreshlyBuilt(graph)).cycles = cycle_list

\* A traversal has left every vertex of a four-vertex graph BLACK and a
\* parent chain behind, and returned two cycles.
C22_Witness ==
    /\ phase = "found"
    /\ graph.num_vertices = MaxVertices
    /\ Len(cycle_list) = 2
    /\ \A v \in Vertices(graph) : graph.color[v] = COLOR_BLACK
    /\ \E v \in Vertices(graph) : graph.parent[v] # -1

\* The allocation edges that leave vertex r of g.
AllocationEdgesOf(g, r) ==
    { k \in 1 .. Len(g.adjacency_list[r]) : g.adjacency_list[r][k].edge_type = ALLOCATION_EDGE }

\* Every resource vertex of g has at most as many outgoing allocation edges as
\* it has instances.
WithinInstanceCapacity(g) ==
    \A r \in Vertices(g) :
        g.vertex_type[r] = VERTEX_TYPE_RESOURCE =>
            Cardinality(AllocationEdgesOf(g, r)) <= g.vertex_instances[r]

\* C23: instance capacity of resources.  After any sequence of graph
\* operations, and in the graph a detection pass builds, a resource vertex with
\* instances = k has at most k outgoing allocation edges; a single-instance
\* resource is never allocated to two processes at the same time.
C23_InstanceCapacity == WithinInstanceCapacity(graph) /\ WithinInstanceCapacity(rag)

\* C24: invalid arguments have no side effects.  add_request_edge and
\* add_allocation_edge called with a pid <= 0 or a rid < 0 return an error and
\* leave the graph exactly as it was (no vertex, no edge, no count changed),
\* whichever of the two arguments is the invalid one.
C24_InvalidArgumentsNoSideEffects ==
    LET rejected(r, g) == r.ret < 0 /\ r.graph = g
    IN  phase = "build" =>
            \A pid \in PidInputs, rid \in RidInputs :
                (pid <= 0 \/ rid < 0) =>
                    /\ rejected(add_request_edge(graph, pid, rid), graph)
                    /\ rejected(add_allocation_edge(graph, rid, pid), graph)

C26_PassTerminates ==
    /\ [](phase \in {"dfs", "found"} =>
             /\ \A v \in Vertices(graph) :
                   /\ entered[v] <= 1
                   /\ entered[v] = 1 <=> graph.color[v] # COLOR_WHITE
                   /\ \A k \in 1 .. Len(graph.adjacency_list[v]) : examined[v][k] <= 1
             /\ Len(stack) <= graph.num_vertices
             /\ phase = "found" =>
                   \A v \in Vertices(graph) :
                       /\ entered[v] = 1
                       /\ \A k \in 1 .. Len(graph.adjacency_list[v]) : examined[v][k] = 1)
    /\ (phase = "dfs") ~> (phase = "found")

\* A pass at its deepest: four calls of dfs_visit_recursive active on a graph
\* of four vertices and five edges.
C26_Witness ==
    /\ phase = "dfs"
    /\ graph.num_vertices = MaxVertices
    /\ Len(stack) = MaxVertices
    /\ graph.num_edges = MaxEdges

\* C27: no back edge is silently lost.  While a pass runs, the GRAY vertices
\* are exactly the vertices of the active dfs_visit_recursive calls, and
\* parent[] links each of them to its caller's vertex, the root having
\* parent -1; so whenever the innermost call at vertex u is about to examine a
\* GRAY neighbour w, following parent[] from u reaches w within num_vertices
\* steps and extract_cycle_path returns SUCCESS with the path w .. u w: its two
\* error branches are never taken.
C27_NoBackEdgeLost ==
    LET top == stack[Len(stack)]
        neighbor == graph.adjacency_list[top.vertex][top.k].vertex_id
        on_stack(w) == { i \in 1 .. Len(stack) : stack[i].vertex = w }
        found(e, w) ==
            /\ e.ret = SUCCESS
            /\ e.cycle.cycle_length <= graph.num_vertices + 1
            /\ \A i \in on_stack(w) :
                  e.cycle.cycle_path =
                      [j \in 1 .. Len(stack) - i + 1 |-> stack[i + j - 1].vertex] \o << w >>
        walked(c, w) ==
            /\ c.ret = SUCCESS
            /\ c.v = w
            /\ Len(c.temp_path) < graph.num_vertices
    IN  (phase = "dfs" /\ stack # << >>) =>
            /\ { v \in Vertices(graph) : graph.color[v] = COLOR_GRAY }
                  = { stack[i].vertex : i \in 1 .. Len(stack) }
            /\ \A i, j \in 1 .. Len(stack) : i # j => stack[i].vertex # stack[j].vertex
            /\ graph.parent[stack[1].vertex] = -1
            /\ \A i \in 2 .. Len(stack) : graph.parent[stack[i].vertex] = stack[i - 1].vertex
            /\ (/\ top.k <= Len(graph.adjacency_list[top.vertex])
                /\ neighbor \in Vertices(graph)
                /\ graph.color[neighbor] = COLOR_GRAY) =>
                  /\ on_stack(neighbor) # {}
                  /\ walked(follow_parent_chain(graph.parent, neighbor, top.vertex, << >>,
                                                graph.num_vertices), neighbor)
                  /\ found(extract_cycle_path(graph.parent, neighbor, top.vertex, graph),
                           neighbor)

\* The innermost of four active calls is about to examine an edge back to the
\* root of the DFS tree.
C27_Witness ==
    /\ phase = "dfs"
    /\ Len(stack) = MaxVertices
    /\ stack[Len(stack)].k <= Len(graph.adjacency_list[stack[Len(stack)].vertex])
    /\ graph.adjacency_list[stack[Len(stack)].vertex][stack[Len(stack)].k].vertex_id
          = stack[1].vertex

\* C28: writes to held_resources stay inside the array.  For the PRIs
\* get_process_resources produces, whose held_resources has as many slots as
\* the process has locks, the dependency analysis writes every element it
\* appends at an index below the number of slots of that array.
C28_HeldWritesInBounds ==
    \A i \in 1 .. Len(procs) :
        /\ ~ procs[i].held_overrun
        /\ Len(procs[i].held_resources) <= procs[i].held_capacity

\* C29: the wait-for projection preserves deadlock.  For every RAG built
\* through the public operations and the graph convert_to_wfg returns for it,
\* find_all_cycles finds a cycle in the one iff it finds a cycle in the other,
\* and a pid lies on a directed cycle of the RAG iff it lies on a directed
\* cycle of the WFG.
C29_WfgPreservesDeadlock ==
    LET finds_cycle(f) == f.ret = SUCCESS /\ Len(f.cycles) > 0
        on_cycle(g, closure, pid) ==
            \E v \in Vertices(g) :
                /\ g.vertex_type[v] = VERTEX_TYPE_PROCESS
                /\ g.vertex_id[v] = pid
                /\ << v, v >> \in closure
        same_pids(rag_closure, wfg_closure) ==
            \A pid \in Pids :
                on_cycle(graph, rag_closure, pid) <=> on_cycle(wfg, wfg_closure, pid)
    IN  phase = "converted" =>
            /\ finds_cycle(find_all_cycles(graph)) <=> finds_cycle(find_all_cycles(wfg))
            /\ HasDirectedCycle(EdgesOf(graph)) <=> HasDirectedCycle(EdgesOf(wfg))
            /\ same_pids(TransitiveClosure(EdgesOf(graph)), TransitiveClosure(EdgesOf(wfg)))

\* A conversion of a RAG in which P1 and P2 wait for each other and one of
\* them also requests the other resource: the WFG is the cycle P1 -> P2 -> P1.
C29_Witness ==
    /\ phase = "converted"
    /\ graph.num_vertices = MaxVertices
    /\ graph.num_edges = MaxEdges
    /\ Cardinality(EdgesOf(graph)) = MaxEdges
    /\ HasDirectedCycle(EdgesOf(graph))
    /\ wfg.num_vertices = 2
    /\ \A u, v \in Vertices(wfg) : u # v => HasEdge(wfg, u, v)

\* C30: every resource vertex of a graph build_rag_from_processes returns has
\* instances = 1, so every cycle in a report of detect_deadlock_in_system is
\* classified definite: on that path the potential bucket is empty and no
\* explanation says POTENTIAL.
C30_DetectionAlwaysDefinite ==
    LET all_definite(b) == b.potential = << >>
        single_instance(g) ==
            \A v \in Vertices(g) :
                g.vertex_type[v] = VERTEX_TYPE_RESOURCE => g.vertex_instances[v] = 1
        built(b) == b.ret = SUCCESS => (single_instance(b.graph) /\ b.graph.num_vertices = rag.num_vertices)
    IN  (phase = "detected" /\ ret >= 0) =>
            /\ single_instance(rag)
            /\ built(build_rag_from_processes(procs))
            /\ all_definite(filter_actual_deadlocks(find_all_cycles(rag).cycles, rag))
            /\ \A i \in 1 .. Len(report.cycles) :
                  is_deadlock_definite(report.cycles[i], rag) = 1
            /\ report.num_explanations = report.num_cycles
            /\ \A i \in 1 .. report.num_explanations :
                  report.explanations[i].verdict = "DEFINITE"

\* A report with two cycles, each with its explanation, on a RAG in which two
\* processes hold and request the same two resources.
C30_Witness ==
    /\ phase = "detected"
    /\ ret = 1
    /\ report.num_cycles = 2
    /\ report.num_explanations = 2
    /\ Cardinality({ v \in Vertices(rag) : rag.vertex_type[v] = VERTEX_TYPE_RESOURCE }) = 2
    /\ \E i \in 1 .. Len(procs) : Len(procs[i].held_resources) = 2

====
